---- MODULE Spec2Model ----
(***************************************************************************)
(* Target-resolution and process-launch engine of the launcher             *)
(* (electron/main.ts, launchItem and its helpers), its argument tokenizer, *)
(* the configuration schema and the loading of the configuration files.    *)
(*                                                                         *)
(* Strings are sequences of one-character strings, so that trimming,       *)
(* case folding, prefix tests and the path functions are computed.         *)
(* The JavaScript values null/undefined/"" of a string-valued local are    *)
(* all the empty sequence: the code only tests them for truthiness.        *)
(***************************************************************************)
EXTENDS Integers, Sequences, FiniteSets, TLC

----------------------------------------------------------------------------
(* Bounds of the model *)

\* number of changes other programs make to the filesystem during a run
MaxFsChanges == 1

\* length of the longest argument string handed to the tokenizer
MaxArgLen == 5

\* number of categories and of items of the configurations handed to the schema
MaxCategories == 2

MaxItems == 2

\* number of changes other programs make to the configuration files
MaxDiskChanges == 1

MaxSaves == 1

----------------------------------------------------------------------------
(* String primitives *)

NULL == <<>>

\* characters matched by the regular-expression class \s and removed by trim()
WS == {" ", "\t", "\n", "\r"}

\* characters the regular-expression dot does not match
LineTerminators == {"\n", "\r"}

UpperLetters == <<"A","B","C","D","E","F","G","H","I","J","K","L","M",
                  "N","O","P","Q","R","S","T","U","V","W","X","Y","Z">>

LowerLetters == <<"a","b","c","d","e","f","g","h","i","j","k","l","m",
                  "n","o","p","q","r","s","t","u","v","w","x","y","z">>

MinOf(S) == CHOOSE x \in S : \A y \in S : x <= y

MaxOf(S) == CHOOSE x \in S : \A y \in S : x >= y

LowerChar(c) ==
  IF \E k \in 1..26 : UpperLetters[k] = c
  THEN LowerLetters[CHOOSE k \in 1..26 : UpperLetters[k] = c]
  ELSE c

IsLetter(c) == \E k \in 1..26 : UpperLetters[k] = c \/ LowerLetters[k] = c

\* String.prototype.toLowerCase
ToLowerCase(s) == [k \in 1..Len(s) |-> LowerChar(s[k])]

\* String.prototype.trim
Trim(s) ==
  LET keep == {k \in 1..Len(s) : s[k] \notin WS}
  IN IF keep = {} THEN <<>> ELSE SubSeq(s, MinOf(keep), MaxOf(keep))

StartsWith(s, p) == Len(s) >= Len(p) /\ SubSeq(s, 1, Len(p)) = p

\* String.prototype.includes, for a non-empty needle
Includes(s, sub) ==
  \E k \in 1..(Len(s) - Len(sub) + 1) : SubSeq(s, k, k + Len(sub) - 1) = sub

\* Array.prototype.filter
RECURSIVE SelectSeqBy(_, _)
SelectSeqBy(s, S) ==
  IF s = <<>> THEN <<>>
  ELSE IF Head(s) \in S THEN <<Head(s)>> \o SelectSeqBy(Tail(s), S)
       ELSE SelectSeqBy(Tail(s), S)

----------------------------------------------------------------------------
(* normalizeArgs: the argument tokenizer *)

\* a quote with no closing quote takes the rest of the string with it
QuotedRunEnd_ToEndOfString(s, i) ==
  IF \E k \in (i + 1)..Len(s) : s[k] = "\""
  THEN MinOf({k \in (i + 1)..Len(s) : s[k] = "\""})
  ELSE IF i < Len(s) THEN Len(s) ELSE 0

\* where the match of "[^"]*" that starts at the quote s[i] ends: at the next
\* quote, and 0 when there is none and the alternative does not match
QuotedRunEnd(s, i) ==
  IF \E k \in (i + 1)..Len(s) : s[k] = "\""
  THEN MinOf({k \in (i + 1)..Len(s) : s[k] = "\""})
  ELSE 0

\* all matches of /[^\s"]+|"[^"]*"/g in s, scanning from index i
RECURSIVE MatchTokens(_, _)
MatchTokens(s, i) ==
  IF i > Len(s) THEN <<>>
  ELSE IF s[i] \notin WS /\ s[i] # "\""
  THEN LET stops == {k \in i..Len(s) : s[k] \in WS \/ s[k] = "\""}
           j == IF stops = {} THEN Len(s) ELSE MinOf(stops) - 1
       IN <<SubSeq(s, i, j)>> \o MatchTokens(s, j + 1)
  ELSE IF s[i] = "\"" /\ QuotedRunEnd(s, i) > 0
  THEN LET j == QuotedRunEnd(s, i)
       IN <<SubSeq(s, i, j)>> \o MatchTokens(s, j + 1)
  ELSE MatchTokens(s, i + 1)

\* the quotes stripped also from a token with a line break in it
StripQuotes_AcrossLines(token) ==
  IF Len(token) >= 2 /\ token[1] = "\"" /\ token[Len(token)] = "\""
  THEN SubSeq(token, 2, Len(token) - 1)
  ELSE token

\* token.replace(/^"(.*)"$/, "$1")
StripQuotes(token) ==
  IF /\ Len(token) >= 2
     /\ token[1] = "\""
     /\ token[Len(token)] = "\""
     /\ \A k \in 2..(Len(token) - 1) : token[k] \notin LineTerminators
  THEN SubSeq(token, 2, Len(token) - 1)
  ELSE token

\* args is [kind |-> "none"], [kind |-> "list", v |-> tokens]
\* or [kind |-> "str", v |-> string]
normalizeArgs(args) ==
  IF args.kind = "list" THEN args.v
  ELSE IF args.kind = "str"
  THEN LET trimmed == Trim(args.v)
           match == MatchTokens(trimmed, 1)
       IN IF trimmed = <<>> THEN <<>>
          ELSE [k \in 1..Len(match) |-> StripQuotes(match[k])]
  ELSE <<>>

----------------------------------------------------------------------------
(* node:path, for the two platform families *)

Platforms == {"win32", "linux"}

IsSep(plat, c) == c = "/" \/ (plat = "win32" /\ c = "\\")

HasDrive(plat, p) ==
  plat = "win32" /\ Len(p) >= 2 /\ IsLetter(p[1]) /\ p[2] = ":"

\* path.isAbsolute
isAbsolute(plat, p) ==
  /\ Len(p) > 0
  /\ \/ IsSep(plat, p[1])
     \/ HasDrive(plat, p) /\ Len(p) >= 3 /\ IsSep(plat, p[3])

\* length of the root of p: "/" or "\", "C:\", "C:" or nothing
RootLen(plat, p) ==
  IF HasDrive(plat, p)
  THEN IF Len(p) >= 3 /\ IsSep(plat, p[3]) THEN 3 ELSE 2
  ELSE IF Len(p) >= 1 /\ IsSep(plat, p[1]) THEN 1 ELSE 0

\* path.basename, for a path without trailing separators
basename(plat, p) ==
  LET seps == {k \in 1..Len(p) : IsSep(plat, p[k])}
      afterDrive == IF HasDrive(plat, p) THEN 3 ELSE 1
      afterSep == IF seps = {} THEN 1 ELSE MaxOf(seps) + 1
  IN SubSeq(p, IF afterSep > afterDrive THEN afterSep ELSE afterDrive, Len(p))

\* path.dirname, for a path without trailing separators
dirname(plat, p) ==
  LET root == RootLen(plat, p)
      seps == {k \in (root + 1)..Len(p) : IsSep(plat, p[k])}
  IN IF seps = {}
     THEN IF root > 0 THEN SubSeq(p, 1, root) ELSE <<".">>
     ELSE SubSeq(p, 1, MaxOf(seps) - 1)

\* path.extname
extname(plat, p) ==
  LET base == basename(plat, p)
      dots == {k \in 1..Len(base) : base[k] = "."}
  IN IF dots = {} \/ base = <<".", ".">> THEN <<>>
     ELSE IF MaxOf(dots) = 1 THEN <<>>
     ELSE SubSeq(base, MaxOf(dots), Len(base))

----------------------------------------------------------------------------
(* Classification helpers of the launch engine *)

EXECUTABLE_EXTENSIONS ==
  { <<".","e","x","e">>, <<".","b","a","t">>,
    <<".","c","m","d">>, <<".","c","o","m">> }

\* the URL test without the i flag
IsHttpUrl_CaseSensitive(target) ==
  \/ StartsWith(target, <<"h","t","t","p",":","/","/">>)
  \/ StartsWith(target, <<"h","t","t","p","s",":","/","/">>)

\* /^https?:\/\//i.test(target)
IsHttpUrl(target) ==
  LET t == ToLowerCase(target)
  IN \/ StartsWith(t, <<"h","t","t","p",":","/","/">>)
     \/ StartsWith(t, <<"h","t","t","p","s",":","/","/">>)

isBareCommandTarget(value) ==
  /\ value # <<>>
  /\ ~Includes(value, <<"\\">>)
  /\ ~Includes(value, <<"/">>)

WindowsAppsDir == <<"\\","w","i","n","d","o","w","s","a","p","p","s","\\">>

\* the resolver without the preference: the first candidate that exists
resolveWindowsCommandPath_FirstCandidate(plat, command, where, existing) ==
  IF plat # "win32" \/ ~isBareCommandTarget(command) THEN NULL
  ELSE IF where.status # 0 \/ where.stdout = <<>> THEN NULL
  ELSE LET lines == [k \in 1..Len(where.stdout) |-> Trim(where.stdout[k])]
           candidates == SelectSeqBy(lines, existing \ {<<>>})
       IN IF candidates = <<>> THEN NULL ELSE candidates[1]

\* where is the reply of where.exe: its exit status and its output lines;
\* existing is the set of paths for which fs.existsSync answers true
resolveWindowsCommandPath(plat, command, where, existing) ==
  IF plat # "win32" \/ ~isBareCommandTarget(command) THEN NULL
  ELSE IF where.status # 0 \/ where.stdout = <<>> THEN NULL
  ELSE LET lines == [k \in 1..Len(where.stdout) |-> Trim(where.stdout[k])]
           candidates == SelectSeqBy(lines, existing \ {<<>>})
           nonWindowsApps ==
             {k \in 1..Len(candidates) :
                ~Includes(ToLowerCase(candidates[k]), WindowsAppsDir)}
       IN IF candidates = <<>> THEN NULL
          ELSE IF nonWindowsApps # {} THEN candidates[MinOf(nonWindowsApps)]
          ELSE candidates[1]

\* absoluteTarget falling back to the target when nothing was resolved
AbsoluteTargetOf_FallsBackToTarget(plat, target, resolvedCommandPath) ==
  IF isAbsolute(plat, target) THEN target
  ELSE IF resolvedCommandPath # NULL /\ isAbsolute(plat, resolvedCommandPath)
       THEN resolvedCommandPath
       ELSE target

\* absoluteTarget of launchItem
AbsoluteTargetOf(plat, target, resolvedCommandPath) ==
  IF isAbsolute(plat, target) THEN target
  ELSE IF resolvedCommandPath # NULL /\ isAbsolute(plat, resolvedCommandPath)
       THEN resolvedCommandPath
       ELSE NULL

\* the existence check left out
TargetMissing_Unchecked(absoluteTarget, existing) == FALSE

\* absoluteTarget && !fs.existsSync(absoluteTarget)
TargetMissing(absoluteTarget, existing) ==
  absoluteTarget # NULL /\ absoluteTarget \notin existing

\* the document test comparing the extension as written
IsDocument_CaseSensitive(plat, absoluteTarget, nargs) ==
  /\ nargs = 0
  /\ extname(plat, absoluteTarget) \notin EXECUTABLE_EXTENSIONS

\* the test that sends a regular file to shell.openPath instead of spawn
IsDocument(plat, absoluteTarget, nargs) ==
  /\ nargs = 0
  /\ ToLowerCase(extname(plat, absoluteTarget)) \notin EXECUTABLE_EXTENSIONS

\* isBareCommand of spawnProcess
isBareCommand(executable) ==
  /\ ~Includes(executable, <<"\\">>)
  /\ ~Includes(executable, <<"/">>)
  /\ Len(executable) > 0

\* the retry condition without the bare-command test
RetriesWithShell_AnyTarget(errno, executable) == errno = "ENOENT"

\* the retry condition without the test of the error
RetriesWithShell_AnyErrno(errno, executable) == isBareCommand(executable)

\* the condition under which spawnProcess retries with shell: true
RetriesWithShell(errno, executable) ==
  errno = "ENOENT" /\ isBareCommand(executable)

\* the errno of the OS handed on as the error code
SpawnErrorCode_RawErrno(errno) == errno

\* error code of a first spawn attempt that is not retried
SpawnErrorCode(errno) ==
  IF errno = "EACCES" \/ errno = "EPERM"
  THEN "TARGET_PERMISSION_DENIED"
  ELSE "TARGET_LAUNCH_FAILED"

\* the failed retry classified as the first attempt is
RetryErrorCode_Classified(errno) ==
  IF errno = "EACCES" \/ errno = "EPERM"
  THEN "TARGET_PERMISSION_DENIED"
  ELSE "TARGET_LAUNCH_FAILED"

\* error code of a failed retry with shell: true, whatever the errno
RetryErrorCode(errno) == "TARGET_LAUNCH_FAILED"

\* a working directory that is never looked up
WorkingDirMissing_Unchecked(workingDirCandidate, workingDir, existing) == FALSE

\* workingDirCandidate && !fs.existsSync(workingDir)
WorkingDirMissing(workingDirCandidate, workingDir, existing) ==
  workingDirCandidate # <<>> /\ workingDir \notin existing

\* the timeout option of the spawnSync call of where.exe: there is none
WhereTimeout == NULL

\* the timeout option of the spawnSync call of tasklist: there is none
TasklistTimeout == NULL

\* the directory of the target preferred to the item's own
WorkingDirOf_TargetDirFirst(plat, workingDirCandidate, absoluteTarget, cwd) ==
  IF absoluteTarget # NULL THEN dirname(plat, absoluteTarget)
  ELSE IF Len(workingDirCandidate) > 0 THEN workingDirCandidate
  ELSE cwd

\* item.workingDir?.trim(), and the directory handed to spawn
WorkingDirOf(plat, workingDirCandidate, absoluteTarget, cwd) ==
  IF Len(workingDirCandidate) > 0 THEN workingDirCandidate
  ELSE IF absoluteTarget # NULL THEN dirname(plat, absoluteTarget)
  ELSE cwd

----------------------------------------------------------------------------
(* Results *)

launchError(code, message, details) ==
  [ok |-> FALSE, code |-> code, message |-> message, details |-> details]

Success(message) ==
  [ok |-> TRUE, code |-> "", message |-> message, details |-> <<>>]

NoResult == [ok |-> FALSE, code |-> "", message |-> "", details |-> <<>>]

\* openPathTarget without the test of the string shell.openPath resolved with
openPathTarget_IgnoresError(openResult) == Success("Opened")

\* openPathTarget telling a refusal from the message of the OS
openPathTarget_Classified(openResult) ==
  IF openResult = <<"Access is denied">>
  THEN launchError("TARGET_PERMISSION_DENIED", "Failed to open path",
                   openResult)
  ELSE IF openResult # <<>>
  THEN launchError("TARGET_LAUNCH_FAILED", "Failed to open path", openResult)
  ELSE Success("Opened")

\* openPathTarget, given the string shell.openPath resolved with
openPathTarget(openResult) ==
  IF openResult # <<>>
  THEN launchError("TARGET_LAUNCH_FAILED", "Failed to open path", openResult)
  ELSE Success("Opened")

----------------------------------------------------------------------------
(* The paths, OS replies and items the model runs the engine on *)

ExeA == <<"C",":","\\","d","\\","a",".","e","x","e">>

ExeB == <<"/","e","/","a",".","e","x","e">>

ExeC == <<"C",":","\\","d","\\","b",".","C","M","D">>

Doc == <<"/","e","/","n",".","T","X","T">>

DirD == <<"C",":","\\","d">>

DirE == <<"/","e">>

Gone == <<"C",":","\\","m",".","e","x","e">>

Alias == <<"C",":","\\","W","i","n","d","o","w","s","A","p","p","s","\\",
           "n","p",".","e","x","e">>

FsPaths == {ExeA, ExeB, ExeC, Doc, DirD, DirE, Gone, Alias}

\* what each path is when it is present
HomeKind(p) == IF p \in {DirD, DirE} THEN "dir" ELSE "file"

\* process.cwd()
Cwd == DirD

\* replies of where.exe: exit status and output lines
WhereReplies ==
  { [status |-> 1, stdout |-> <<>>],
    [status |-> 0, stdout |-> <<ExeA>>],
    [status |-> 0, stdout |-> <<Alias, ExeA \o <<"\r">> >>],
    [status |-> 0, stdout |-> <<Alias>>],
    [status |-> 0, stdout |-> <<Gone>>],
    [status |-> 0, stdout |-> <<Gone, Alias, ExeC, ExeA>>] }

\* error codes with which a spawn attempt can fail
SpawnErrnos == {"ENOENT", "EACCES", "EPERM", "EINVAL"}

\* strings shell.openPath resolves with: empty on success
OpenPathReplies == {<<>>, <<"Failed to open path">>, <<"Access is denied">>}

\* what tasklist prints when no process matches its filter: on an English
\* Windows, and on a Windows of another display language
NoTasksInfo ==
  <<"I","N","F","O",":"," ","N","o"," ","t","a","s","k","s"," ","a","r","e",
    " ","r","u","n","n","i","n","g",".","\r","\n">>

NoTasksInfoLocalized ==
  <<"I","N","F","O",":"," ","K","e","i","n","e"," ","T","a","s","k","s",
    ".","\r","\n">>

\* the CSV row tasklist prints for a process of the image
TasklistRow(imageName) ==
  <<"\"">> \o imageName \o <<"\"", ",", "\"", "1", "\"", "\r", "\n">>

\* replies of tasklist /FI "IMAGENAME eq <imageName>" /FO CSV /NH when
\* matching is the set of running processes of that image: it fails, or it
\* prints a row for each, or, for none, its message
TasklistReplies(imageName, matching) ==
  {[status |-> 1, stdout |-> <<>>]} \cup
  (IF matching # {}
   THEN {[status |-> 0, stdout |-> TasklistRow(imageName)]}
   ELSE {[status |-> 0, stdout |-> NoTasksInfo],
         [status |-> 0, stdout |-> NoTasksInfoLocalized]})

NoArgs == [kind |-> "none", v |-> <<>>]

Item(id, target, args, workingDir) ==
  [id |-> id, target |-> target, args |-> args, workingDir |-> workingDir]

NoItem == Item("", <<>>, NoArgs, <<>>)

Items ==
  { Item("url", <<" ","H","T","T","P","S",":","/","/","x"," ">>, NoArgs, <<>>),
    Item("rel", <<"h","t","t","p",":","/","x">>, NoArgs, <<>>),
    Item("exeA", ExeA, NoArgs, <<>>),
    Item("exeB", ExeB, NoArgs, <<>>),
    Item("exeC", ExeC, NoArgs, <<>>),
    Item("exeArgs", ExeA,
         [kind |-> "str", v |-> <<"-","n"," ","\"","x"," ","y","\"">>], <<>>),
    Item("exeWd", ExeB, NoArgs, Gone),
    Item("doc", Doc, NoArgs, <<>>),
    Item("docArgs", Doc, [kind |-> "list", v |-> << <<"p">> >>], <<>>),
    Item("dir", DirD, NoArgs, <<>>),
    Item("dirArgs", DirE, [kind |-> "str", v |-> <<"x">>], <<>>),
    Item("gone", Gone, NoArgs, <<>>),
    Item("np", <<"n","p">>, NoArgs, <<>>),
    Item("npArgs", <<" ","n","p"," ">>, [kind |-> "str", v |-> <<"-","v">>],
         <<>>),
    Item("npWd", <<"n","p">>, NoArgs, Gone),
    Item("npWdFile", <<"n","p">>, NoArgs, Doc) }

\* the items of the configuration when two launch requests overlap
OverlapItems == {it \in Items : it.id \in {"url", "exeA", "exeB", "np"}}

\* the invocations of launchItem that can be in progress at the same time
Launches == {"a", "b"}

\* a verifier loop that stops one poll early
VerifyAttempts_OneShort == 6 - 1

\* number of polls of verifyProcessLaunch
VerifyAttempts == 6

----------------------------------------------------------------------------
(* State *)

VARIABLES
  platform,   \* process.platform
  catalog,    \* the items of the cached configuration
  requests,   \* the invocations the launch-request handler makes
  fs,         \* the filesystem: kind of every path, "none" when absent
  fsChanges,  \* changes made to the filesystem by other programs so far
  procs,      \* the OS process list: image name and who started it
  turn,       \* the invocation running on the event loop, or "none"
  inv         \* per invocation: position, locals, result and calls made

\* the argument tokenizer on its own
VARIABLES
  argsInput,  \* the args of an item
  argsResult  \* what normalizeArgs returned for it

\* the configuration schema on its own
VARIABLES
  schemaInput,  \* the value handed to launcherConfigSchema.safeParse
  schemaResult  \* what safeParse returned for it

\* the configuration files and the configuration held in memory
VARIABLES
  resourcesRoot,            \* getResourcesRoot()
  disk,                     \* content of the configuration and icon files
  diskChanges,              \* changes made to them by other programs so far
  cachedConfigRaw,
  cachedConfigForRenderer,
  loadResult,               \* what the last call of loadConfig returned
  saves,                    \* calls of saveConfig so far
  saveResult,               \* what the last call of saveConfig returned
  served                    \* what getCachedConfig last gave a handler

\* the widget window
VARIABLES
  widgetConfig,  \* app.mode and app.widget of the configuration
  widget         \* the window and the module's widget variables

\* the outside-click watcher
VARIABLES
  child,         \* the worker the watcher holds, or NoChild
  stdoutBuffer,  \* the text of the line not yet ended
  worker,        \* the worker processes the watcher spawned
  callbacks,     \* the onMouseDownEdge and onOutsideClick calls made so far
  cursorInside   \* the cursor is inside the window

launchVars == <<platform, catalog, requests, fs, fsChanges, procs, turn, inv>>

argVars == <<argsInput, argsResult>>

schemaVars == <<schemaInput, schemaResult>>

configVars == <<resourcesRoot, disk, diskChanges, cachedConfigRaw,
                cachedConfigForRenderer, loadResult, saves, saveResult,
                served>>

widgetVars == <<widgetConfig, widget>>

watcherVars == <<child, stdoutBuffer, worker, callbacks, cursorInside>>

\* the variables other than those of launchItem
otherThanLaunch == <<argVars, schemaVars, configVars, widgetVars, watcherVars>>

\* the variables other than those of the tokenizer
otherThanArgs == <<launchVars, schemaVars, configVars, widgetVars, watcherVars>>

\* the variables other than those of the schema
otherThanSchema == <<launchVars, argVars, configVars, widgetVars, watcherVars>>

\* the variables other than those of the configuration files
otherThanConfig == <<launchVars, argVars, schemaVars, widgetVars, watcherVars>>

\* the variables other than those of the widget window
otherThanWidget == <<launchVars, argVars, schemaVars, configVars, watcherVars>>

\* the variables other than those of the outside-click watcher
otherThanWatcher == <<launchVars, argVars, schemaVars, configVars, widgetVars>>

vars == <<launchVars, argVars, schemaVars, configVars, widgetVars, watcherVars>>

\* no window is created
WidgetUnused == widgetConfig = "unused" /\ widget = "unused"

\* no outside-click watcher is created
WatcherUnused ==
  /\ child = "unused"
  /\ stdoutBuffer = "unused"
  /\ worker = "unused"
  /\ callbacks = "unused"
  /\ cursorInside = "unused"

\* the tokenizer is not run on its own
ArgsUnused == argsInput = "unused" /\ argsResult = "unused"

\* the schema is not run on its own
SchemaUnused == schemaInput = "unused" /\ schemaResult = "unused"

\* no configuration is loaded
ConfigUnused ==
  /\ resourcesRoot = "unused"
  /\ disk = "unused"
  /\ diskChanges = "unused"
  /\ cachedConfigRaw = "unused"
  /\ cachedConfigForRenderer = "unused"
  /\ loadResult = "unused"
  /\ saves = "unused"
  /\ saveResult = "unused"
  /\ served = "unused"

\* launchItem is not run
LaunchUnused ==
  /\ platform = "unused"
  /\ catalog = "unused"
  /\ requests = "unused"
  /\ fs = "unused"
  /\ fsChanges = "unused"
  /\ procs = "unused"
  /\ turn = "unused"
  /\ inv = "unused"

PathExists(p) == p \in FsPaths /\ fs[p] # "none"

Existing == {p \in FsPaths : fs[p] # "none"}

KindOf(p) == IF p \in FsPaths THEN fs[p] ELSE "none"

\* the name tasklist filters on; image names compare case-insensitively
ImageName(p) == ToLowerCase(basename(platform, p))

InitInv ==
  [ pc |-> "idle",
    itemId |-> "",              \* the id the renderer asked to launch
    item |-> NoItem,
    target |-> <<>>,
    args |-> <<>>,
    resolvedCommandPath |-> NULL,
    absoluteTarget |-> NULL,
    executableNoArgsAbsoluteTarget |-> NULL,
    workingDir |-> NULL,
    attempt |-> 0,
    outcome |-> "pending",      \* "returned" or "threw" when done
    result |-> NoResult,
    outcomes |-> 0,             \* results handed to the caller so far
    \* calls made to the OS, in order
    openExternals |-> <<>>,
    openPaths |-> <<>>,
    spawns |-> <<>>,
    whereCalls |-> 0,
    fsChecks |-> 0,
    polls |-> 0,
    pollsShowing |-> 0,         \* polls whose output listed the image
    \* what the OS answered
    whereReply |-> [status |-> 1, stdout |-> <<>>],
    whereExisting |-> {},       \* the candidates fs.existsSync found
    sawExists |-> "unasked",
    sawKind |-> "unasked",
    sawWorkingDir |-> "unasked",
    spawnErrnos |-> <<>>,
    urlReply |-> "unasked",
    openReply |-> <<"unasked">>,
    verified |-> "unasked",
    \* who had started the processes that made the verifier succeed
    verifiedBy |-> {},
    \* how many times the OS really started a process for this invocation
    started |-> 0 ]

InitOS ==
  /\ platform \in Platforms
  /\ fs = [p \in FsPaths |-> IF p = Gone THEN "none" ELSE HomeKind(p)]
  /\ fsChanges = 0
  /\ procs \in SUBSET {[image |-> <<"a",".","e","x","e">>, by |-> "os"]}
  /\ turn = "none"
  /\ inv = [i \in Launches |-> InitInv]

\* one launch request
Init ==
  /\ InitOS
  /\ catalog \in {[ok |-> ok, items |-> Items] : ok \in BOOLEAN}
  /\ requests = {"a"}
  /\ ArgsUnused /\ SchemaUnused /\ ConfigUnused /\ WidgetUnused /\ WatcherUnused

\* two launch requests that may overlap, where there is a process list and
\* no process of the image runs yet
InitOverlap ==
  /\ InitOS
  /\ platform = "win32"
  /\ procs = {}
  /\ catalog = [ok |-> TRUE, items |-> OverlapItems]
  /\ requests = Launches
  /\ ArgsUnused /\ SchemaUnused /\ ConfigUnused /\ WidgetUnused /\ WatcherUnused

\* the invocation returns result r
Return(i, r, upd) ==
  /\ inv' = [inv EXCEPT ![i] =
               [upd EXCEPT !.pc = "done", !.outcome = "returned", !.result = r,
                           !.outcomes = @ + 1]]
  /\ turn' = "none"

----------------------------------------------------------------------------
(* The launch-request handler and launchItem, one action per stretch of code
   between two OS calls *)

\* an id no item of the configuration has
MissingId == "missing"

\* the ids a renderer can send
RequestIds == {it.id : it \in catalog.items} \cup {MissingId}

\* items.find(entry => entry.id === itemId), as the set of what it finds
FindItem_Any(items, itemId) == items

FindItem(items, itemId) == {entry \in items : entry.id = itemId}

\* the handler receives a launch request: it takes the cached configuration,
\* looks the id up and calls launchItem for the item found; launchItem trims,
\* tokenizes and tests for a URL, and a URL goes to shell.openExternal at once
Begin(i) ==
  /\ turn = "none"
  /\ i \in requests
  /\ inv[i].pc = "idle"
  \* of two requests, "a" names the one the handler receives first
  /\ i = "b" => inv["a"].pc # "idle"
  /\ \E itemId \in RequestIds :
       LET asked == [inv[i] EXCEPT !.itemId = itemId]
           found == FindItem(catalog.items, itemId)
       IN IF ~catalog.ok
          THEN Return(i, launchError("CONFIG_NOT_READY",
                                     "Config is not ready.", <<>>), asked)
          ELSE IF found = {}
          THEN Return(i, launchError("ITEM_NOT_FOUND",
                                     "Selected item does not exist.",
                                     <<itemId>>), asked)
          ELSE \E it \in found :
            LET target == Trim(it.target)
                started == [asked EXCEPT !.item = it,
                                         !.target = target,
                                         !.args = normalizeArgs(it.args)]
            IN IF IsHttpUrl(target)
               THEN /\ inv' = [inv EXCEPT ![i] =
                                 [started EXCEPT !.pc = "urlOpen",
                                                 !.openExternals = <<target>>]]
                    /\ turn' = "none"
               ELSE /\ inv' = [inv EXCEPT ![i] =
                                 [started EXCEPT !.pc = "resolve"]]
                    /\ turn' = i
  /\ UNCHANGED <<otherThanLaunch, platform, catalog, requests, fs, fsChanges, procs>>

\* shell.openExternal settles
UrlReply(i) ==
  /\ turn = "none"
  /\ inv[i].pc = "urlOpen"
  /\ \E opened \in BOOLEAN :
       Return(i,
              IF opened THEN Success("Opened URL")
              ELSE launchError("TARGET_LAUNCH_FAILED", "Failed to open URL",
                               <<"openExternal failed">>),
              [inv[i] EXCEPT !.urlReply = IF opened THEN "opened"
                                          ELSE "failed"])
  /\ UNCHANGED <<otherThanLaunch, platform, catalog, requests, fs, fsChanges, procs>>

\* resolveWindowsCommandPath(target) and the choice of absoluteTarget
Resolve(i) ==
  /\ turn = i
  /\ inv[i].pc = "resolve"
  /\ LET me == inv[i]
         asks == platform = "win32" /\ isBareCommandTarget(me.target)
     IN \E where \in IF asks THEN WhereReplies
                     ELSE {[status |-> 1, stdout |-> <<>>]} :
          LET resolved == resolveWindowsCommandPath(platform, me.target,
                                                    where, Existing)
              lines == IF where.status = 0 THEN Len(where.stdout) ELSE 0
          IN inv' = [inv EXCEPT ![i] =
                       [me EXCEPT
                          !.pc = "exists",
                          !.resolvedCommandPath = resolved,
                          !.absoluteTarget =
                             AbsoluteTargetOf(platform, me.target, resolved),
                          !.whereCalls = IF asks THEN @ + 1 ELSE @,
                          !.fsChecks = IF asks THEN @ + lines ELSE @,
                          !.whereReply = where,
                          !.whereExisting =
                             IF asks /\ where.status = 0
                             THEN {Trim(where.stdout[k]) :
                                     k \in 1..Len(where.stdout)} \cap Existing
                             ELSE {}]]
  /\ UNCHANGED <<otherThanLaunch, platform, catalog, requests, fs, fsChanges, procs, turn>>

\* where.exe never exits: spawnSync returns only when its timeout, if it has
\* one, kills the child (status null, so no path is resolved); while it waits
\* the event loop runs nothing else
WhereHangs(i) ==
  /\ turn = i
  /\ inv[i].pc = "resolve"
  /\ platform = "win32" /\ isBareCommandTarget(inv[i].target)
  /\ LET me == [inv[i] EXCEPT !.whereCalls = @ + 1]
     IN inv' = [inv EXCEPT ![i] =
                  IF WhereTimeout = NULL
                  THEN [me EXCEPT !.pc = "whereWait"]
                  ELSE [me EXCEPT
                          !.pc = "exists",
                          !.absoluteTarget =
                             AbsoluteTargetOf(platform, me.target, NULL)]]
  /\ UNCHANGED <<otherThanLaunch, platform, catalog, requests, fs, fsChanges, procs, turn>>

\* if (absoluteTarget && !fs.existsSync(absoluteTarget)) return TARGET_NOT_FOUND
Exists(i) ==
  /\ turn = i
  /\ inv[i].pc = "exists"
  /\ LET me == inv[i]
     IN IF me.absoluteTarget = NULL
        THEN /\ inv' = [inv EXCEPT ![i] = [me EXCEPT !.pc = "workingDir"]]
             /\ turn' = turn
        ELSE LET seen == [me EXCEPT !.fsChecks = @ + 1,
                                    !.sawExists =
                                       IF PathExists(me.absoluteTarget)
                                       THEN "present" ELSE "absent"]
             IN IF TargetMissing(me.absoluteTarget, Existing)
                THEN Return(i,
                            launchError("TARGET_NOT_FOUND",
                                        "Target path does not exist",
                                        me.absoluteTarget),
                            seen)
                ELSE /\ inv' = [inv EXCEPT ![i] = [seen EXCEPT !.pc = "stat"]]
                     /\ turn' = turn
  /\ UNCHANGED <<otherThanLaunch, platform, catalog, requests, fs, fsChanges, procs>>

\* fs.statSync(absoluteTarget) and the choice between shell.openPath and spawn;
\* statSync throws when the path is absent and nothing catches it
Stat(i) ==
  /\ turn = i
  /\ inv[i].pc = "stat"
  /\ LET me == inv[i]
         kind == KindOf(me.absoluteTarget)
         seen == [me EXCEPT !.fsChecks = @ + 1, !.sawKind = kind]
         opens == [seen EXCEPT !.pc = "openPath",
                               !.openPaths = Append(@, me.absoluteTarget)]
     IN IF kind = "none"
        THEN /\ inv' = [inv EXCEPT ![i] =
                          [seen EXCEPT !.pc = "done", !.outcome = "threw"]]
             /\ turn' = "none"
        ELSE IF kind = "dir"
        THEN /\ inv' = [inv EXCEPT ![i] = opens]
             /\ turn' = "none"
        ELSE IF kind = "file" /\ IsDocument(platform, me.absoluteTarget,
                                            Len(me.args))
        THEN /\ inv' = [inv EXCEPT ![i] = opens]
             /\ turn' = "none"
        ELSE IF kind = "file" /\ Len(me.args) = 0
        THEN /\ inv' = [inv EXCEPT ![i] =
                          [seen EXCEPT
                             !.pc = "workingDir",
                             !.executableNoArgsAbsoluteTarget =
                                me.absoluteTarget]]
             /\ turn' = turn
        ELSE /\ inv' = [inv EXCEPT ![i] = [seen EXCEPT !.pc = "workingDir"]]
             /\ turn' = turn
  /\ UNCHANGED <<otherThanLaunch, platform, catalog, requests, fs, fsChanges, procs>>

\* spawnProcess handed the target as written, not the resolved path
LaunchTargetOf_AsWritten(me) == me.target

\* the string launchItem hands to spawnProcess
LaunchTargetOf(me) ==
  IF me.executableNoArgsAbsoluteTarget # NULL
  THEN me.executableNoArgsAbsoluteTarget
  ELSE IF me.absoluteTarget # NULL THEN me.absoluteTarget ELSE me.target

\* the record of one call of child_process.spawn
SpawnCall(me, useShell) ==
  [ executable |-> LaunchTargetOf(me),
    args |-> IF me.executableNoArgsAbsoluteTarget # NULL THEN <<>> ELSE me.args,
    cwd |-> me.workingDir,
    shell |-> useShell ]

\* the working directory, its existence check, and the first spawn attempt
WorkingDir(i) ==
  /\ turn = i
  /\ inv[i].pc = "workingDir"
  /\ LET me == inv[i]
         workingDirCandidate == Trim(me.item.workingDir)
         workingDir == WorkingDirOf(platform, workingDirCandidate,
                                    me.absoluteTarget, Cwd)
         chosen == [me EXCEPT !.workingDir = workingDir,
                              !.fsChecks = IF workingDirCandidate # <<>>
                                           THEN @ + 1 ELSE @,
                              !.sawWorkingDir = IF workingDirCandidate # <<>>
                                                THEN KindOf(workingDir)
                                                ELSE @]
     IN IF WorkingDirMissing(workingDirCandidate, workingDir, Existing)
        THEN Return(i,
                    launchError("TARGET_NOT_FOUND",
                                "Working directory not found", workingDir),
                    chosen)
        ELSE /\ inv' = [inv EXCEPT ![i] =
                          [chosen EXCEPT
                             !.pc = "spawn",
                             !.spawns = Append(@, SpawnCall(chosen, FALSE))]]
             /\ turn' = "none"
  /\ UNCHANGED <<otherThanLaunch, platform, catalog, requests, fs, fsChanges, procs>>

\* every spawn that succeeded verified, whatever was spawned
AfterSpawn_AlwaysVerifies(i, me) ==
  IF platform = "win32"
  THEN /\ inv' = [inv EXCEPT ![i] = [me EXCEPT !.pc = "verify", !.attempt = 0]]
       /\ turn' = "none"
  ELSE Return(i, Success("Launched"), [me EXCEPT !.verified = "true"])

\* launchItem continues after spawnProcess reported success: only a
\* no-argument executable is verified, and only on win32 is there a poll
AfterSpawn(i, me) ==
  IF me.executableNoArgsAbsoluteTarget # NULL /\ platform = "win32"
  THEN /\ inv' = [inv EXCEPT ![i] = [me EXCEPT !.pc = "verify", !.attempt = 0]]
       /\ turn' = "none"
  ELSE Return(i, Success("Launched"),
              IF me.executableNoArgsAbsoluteTarget # NULL
              THEN [me EXCEPT !.verified = "true"] ELSE me)

\* a spawn attempt emits "spawn": the OS acknowledged the new process, which
\* then really runs or is silently dropped
SpawnOk(i) ==
  /\ turn = "none"
  /\ inv[i].pc \in {"spawn", "spawnShell"}
  /\ \E runs \in BOOLEAN :
       LET me == inv[i]
           call == me.spawns[Len(me.spawns)]
           acked == [me EXCEPT !.spawnErrnos = Append(@, "OK"),
                               !.started = IF runs THEN @ + 1 ELSE @]
       IN /\ procs' = IF runs
                      THEN procs \cup {[image |-> ImageName(call.executable),
                                        by |-> i]}
                      ELSE procs
          /\ AfterSpawn(i, acked)
  /\ UNCHANGED <<otherThanLaunch, platform, catalog, requests, fs, fsChanges>>

\* the first spawn attempt emits "error": retry through the shell, or fail
SpawnFail(i) ==
  /\ turn = "none"
  /\ inv[i].pc = "spawn"
  /\ \E errno \in SpawnErrnos :
       LET me == inv[i]
           call == me.spawns[Len(me.spawns)]
           failed == [me EXCEPT !.spawnErrnos = Append(@, errno)]
       IN IF RetriesWithShell(errno, call.executable)
          THEN /\ inv' = [inv EXCEPT ![i] =
                            [failed EXCEPT
                               !.pc = "spawnShell",
                               !.spawns = Append(@, SpawnCall(me, TRUE))]]
               /\ turn' = "none"
          ELSE Return(i,
                      launchError(SpawnErrorCode(errno), "Failed to launch",
                                  <<errno>>),
                      failed)
  /\ UNCHANGED <<otherThanLaunch, platform, catalog, requests, fs, fsChanges, procs>>

\* the retry with shell: true emits "error"
ShellFail(i) ==
  /\ turn = "none"
  /\ inv[i].pc = "spawnShell"
  /\ \E errno \in SpawnErrnos :
       Return(i,
              launchError(RetryErrorCode(errno), "Failed to launch",
                          <<errno>>),
              [inv[i] EXCEPT !.spawnErrnos = Append(@, errno)])
  /\ UNCHANGED <<otherThanLaunch, platform, catalog, requests, fs, fsChanges, procs>>

\* isWindowsProcessImageRunning, given the reply of tasklist: the answer is
\* read off the absence of the English message, not off the image name
isWindowsProcessImageRunning(plat, reply) ==
  IF plat # "win32" THEN TRUE
  ELSE IF reply.status # 0 \/ reply.stdout = <<>> THEN FALSE
  ELSE LET output == ToLowerCase(Trim(reply.stdout))
       IN IF output = <<>> THEN FALSE
          ELSE ~Includes(output, <<"n","o"," ","t","a","s","k","s"," ",
                                   "a","r","e"," ","r","u","n","n","i","n","g">>)

\* one iteration of the loop of verifyProcessLaunch: the first poll follows the
\* settling of the spawn promise, the later ones follow a timer; when the last
\* poll fails launchItem falls back to shell.openPath
Poll(i) ==
  /\ turn = "none"
  /\ inv[i].pc = "verify"
  /\ LET me == inv[i]
         imageName == ImageName(me.executableNoArgsAbsoluteTarget)
         matching == {q \in procs : q.image = imageName}
     IN \E reply \in TasklistReplies(imageName, matching) :
       LET shown == reply.status = 0 /\ matching # {}
           polled == [me EXCEPT !.polls = @ + 1, !.attempt = @ + 1,
                                !.pollsShowing = IF shown THEN @ + 1 ELSE @]
       IN IF isWindowsProcessImageRunning(platform, reply)
          THEN Return(i, Success("Launched"),
                      [me EXCEPT
                         !.polls = @ + 1,
                         !.pollsShowing = IF shown THEN @ + 1 ELSE @,
                         !.verified = "true",
                         !.verifiedBy = {pr.by : pr \in matching}])
          ELSE IF polled.attempt < VerifyAttempts
          THEN /\ inv' = [inv EXCEPT ![i] = polled]
               /\ turn' = "none"
          ELSE /\ inv' = [inv EXCEPT ![i] =
                            [polled EXCEPT
                               !.pc = "openPath",
                               !.verified = "false",
                               !.openPaths =
                                  Append(@, me.executableNoArgsAbsoluteTarget)]]
               /\ turn' = "none"
  /\ UNCHANGED <<otherThanLaunch, platform, catalog, requests, fs, fsChanges, procs>>

\* tasklist never exits during a poll of the verifier: spawnSync returns only
\* when its timeout, if it has one, kills the child, and the poll then counts
\* as failed; while it waits the event loop runs nothing else
TasklistHangs(i) ==
  /\ turn = "none"
  /\ inv[i].pc = "verify"
  /\ LET me == inv[i]
         polled == [me EXCEPT !.polls = @ + 1, !.attempt = @ + 1]
     IN IF TasklistTimeout = NULL
        THEN /\ inv' = [inv EXCEPT ![i] =
                          [me EXCEPT !.pc = "tasklistWait", !.polls = @ + 1]]
             /\ turn' = i
        ELSE IF polled.attempt < VerifyAttempts
        THEN /\ inv' = [inv EXCEPT ![i] = polled]
             /\ turn' = "none"
        ELSE /\ inv' = [inv EXCEPT ![i] =
                          [polled EXCEPT
                             !.pc = "openPath",
                             !.verified = "false",
                             !.openPaths =
                                Append(@, me.executableNoArgsAbsoluteTarget)]]
             /\ turn' = "none"
  /\ UNCHANGED <<otherThanLaunch, platform, catalog, requests, fs, fsChanges, procs>>

\* shell.openPath resolves
OpenPathReply(i) ==
  /\ turn = "none"
  /\ inv[i].pc = "openPath"
  /\ \E openResult \in OpenPathReplies :
       LET me == inv[i]
           opened == me.openPaths[Len(me.openPaths)]
           \* the shell starts an executable it opens
           starts == /\ openResult = <<>>
                     /\ me.executableNoArgsAbsoluteTarget # NULL
       IN /\ procs' = IF starts
                      THEN procs \cup {[image |-> ImageName(opened), by |-> i]}
                      ELSE procs
          /\ Return(i, openPathTarget(openResult),
                    [me EXCEPT !.openReply = openResult,
                               !.started = IF starts THEN @ + 1 ELSE @])
  /\ UNCHANGED <<otherThanLaunch, platform, catalog, requests, fs, fsChanges>>

----------------------------------------------------------------------------
(* The environment *)

\* another program removes a path or puts it back
FsChange ==
  /\ fsChanges < MaxFsChanges
  /\ \E p \in FsPaths :
       fs' = [fs EXCEPT ![p] = IF @ = "none" THEN HomeKind(p) ELSE "none"]
  /\ fsChanges' = fsChanges + 1
  /\ UNCHANGED <<otherThanLaunch, platform, catalog, requests, procs, turn, inv>>

\* a running process exits
ProcExit ==
  /\ \E pr \in procs : procs' = procs \ {pr}
  /\ UNCHANGED <<otherThanLaunch, platform, catalog, requests, fs, fsChanges, turn, inv>>

----------------------------------------------------------------------------

\* a step of invocation i of launchItem
LaunchStep(i) ==
  \/ Begin(i)
  \/ UrlReply(i)
  \/ Resolve(i)
  \/ WhereHangs(i)
  \/ Exists(i)
  \/ Stat(i)
  \/ WorkingDir(i)
  \/ SpawnOk(i)
  \/ SpawnFail(i)
  \/ ShellFail(i)
  \/ Poll(i)
  \/ TasklistHangs(i)
  \/ OpenPathReply(i)

Launch == \E i \in Launches : LaunchStep(i)

Next ==
  \/ Launch
  \/ FsChange
  \/ ProcExit

\* one launch request, on a filesystem that other programs change
Spec == Init /\ [][Next]_vars

\* two overlapping launch requests on a filesystem that stays as it is
NextOverlap ==
  \/ Launch
  \/ ProcExit

SpecOverlap == InitOverlap /\ [][NextOverlap]_vars

----------------------------------------------------------------------------
(* normalizeArgs run on its own, on every short argument string *)

\* the characters of the argument strings: a letter, a blank, a double quote
\* and a line feed
ArgChars == {"a", " ", "\"", "\n"}

ArgStrings == UNION {[1..n -> ArgChars] : n \in 0..MaxArgLen}

\* item.args is absent, a list of strings, or a string
ArgInputs ==
  {NoArgs}
    \cup {[kind |-> "list", v |-> << <<"a"," ","\"">>, <<>> >>]}
    \cup {[kind |-> "str", v |-> str] : str \in ArgStrings}

InitArgs ==
  /\ argsInput \in ArgInputs
  /\ argsResult = [returned |-> FALSE, tokens |-> <<>>]
  /\ LaunchUnused /\ SchemaUnused /\ ConfigUnused /\ WidgetUnused /\ WatcherUnused

\* launchItem calls normalizeArgs(item.args)
Tokenize ==
  /\ ~argsResult.returned
  /\ argsResult' = [returned |-> TRUE, tokens |-> normalizeArgs(argsInput)]
  /\ UNCHANGED <<argsInput, otherThanArgs>>

NextArgs == Tokenize

SpecArgs == InitArgs /\ [][NextArgs]_vars

----------------------------------------------------------------------------
(* launcherConfigSchema *)

\* a category, an item and a configuration, with the fields the schema
\* relates; an optional text field that is absent is the empty sequence
Category(id) == [id |-> id, label |-> <<"L">>]

ConfigItem(id, categoryId, icon) ==
  [id |-> id, name |-> <<"n">>, categoryId |-> categoryId,
   target |-> <<"t">>, icon |-> icon]

Config(version, categories, items) ==
  [version |-> version, title |-> <<"T">>,
   categories |-> categories, items |-> items]

\* no configuration: null
NoConfig == Config(0, <<>>, <<>>)

\* z.string().trim().min(1): the value the schema hands on is the trimmed one
nonEmptyText(text) == Trim(text)

\* the value launcherConfigSchema hands on for an input
SchemaOutput(input) ==
  [version |-> input.version,
   title |-> nonEmptyText(input.title),
   categories |->
     [k \in 1..Len(input.categories) |->
        [id |-> nonEmptyText(input.categories[k].id),
         label |-> nonEmptyText(input.categories[k].label)]],
   items |->
     [k \in 1..Len(input.items) |->
        [id |-> nonEmptyText(input.items[k].id),
         name |-> nonEmptyText(input.items[k].name),
         categoryId |-> nonEmptyText(input.items[k].categoryId),
         target |-> nonEmptyText(input.items[k].target),
         icon |-> nonEmptyText(input.items[k].icon)]]]

\* the issues of the object schema: the literal 2, min(1) of each text after
\* the trim, and min(1) of the categories; an absent icon raises none
ObjectIssues(input, value) ==
  (IF input.version # 2 THEN <<"version">> ELSE <<>>)
    \o (IF value.title = <<>> THEN <<"app.title">> ELSE <<>>)
    \o (IF Len(value.categories) < 1 THEN <<"categories">> ELSE <<>>)
    \o (IF \E k \in 1..Len(value.categories) :
              value.categories[k].id = <<>> \/ value.categories[k].label = <<>>
        THEN <<"categories.text">> ELSE <<>>)
    \o (IF \E k \in 1..Len(value.items) :
              \/ value.items[k].id = <<>>
              \/ value.items[k].name = <<>>
              \/ value.items[k].categoryId = <<>>
              \/ value.items[k].target = <<>>
              \/ input.items[k].icon # <<>> /\ value.items[k].icon = <<>>
        THEN <<"items.text">> ELSE <<>>)

\* the first loop of superRefine
RECURSIVE CategoryIssues(_, _, _)
CategoryIssues(categories, k, categoryIds) ==
  IF k > Len(categories) THEN <<>>
  ELSE (IF categories[k].id \in categoryIds
        THEN <<"Duplicate category id">> ELSE <<>>)
         \o CategoryIssues(categories, k + 1,
                           categoryIds \cup {categories[k].id})

\* the second loop of superRefine
RECURSIVE ItemIssues(_, _, _, _)
ItemIssues(items, k, itemIds, categoryIds) ==
  IF k > Len(items) THEN <<>>
  ELSE (IF items[k].id \in itemIds THEN <<"Duplicate item id">> ELSE <<>>)
         \o (IF items[k].categoryId \notin categoryIds
             THEN <<"Unknown category id">> ELSE <<>>)
         \o ItemIssues(items, k + 1, itemIds \cup {items[k].id}, categoryIds)

\* superRefine without its second loop
RefineIssues_CategoriesOnly(value) == CategoryIssues(value.categories, 1, {})

\* the issues superRefine adds for the value the object schema handed on
RefineIssues(value) ==
  CategoryIssues(value.categories, 1, {})
    \o ItemIssues(value.items, 1, {},
                  {value.categories[k].id : k \in 1..Len(value.categories)})

\* launcherConfigSchema.safeParse: the refinement is run on the value of the
\* object schema unless that one gave up on a wrong literal
safeParse(input) ==
  LET value == SchemaOutput(input)
      issues == ObjectIssues(input, value)
                  \o (IF input.version # 2 THEN <<>> ELSE RefineIssues(value))
  IN [success |-> issues = <<>>,
      data |-> IF issues = <<>> THEN value ELSE NoConfig,
      issues |-> issues]

----------------------------------------------------------------------------
(* safeParse run on its own, on every small configuration *)

CategoryIds == {<<"a">>, <<" ","a">>, <<"b">>, <<" ">>}

ItemIds == {<<"x">>, <<"x"," ">>}

SeqsUpTo(S, n) == UNION {[1..k -> S] : k \in 0..n}

SchemaInputs ==
  {Config(1, <<Category(<<"a">>)>>, <<>>)}
    \cup {Config(2, categories, items) :
            categories \in SeqsUpTo({Category(id) : id \in CategoryIds},
                                    MaxCategories),
            items \in SeqsUpTo({ConfigItem(id, categoryId, <<>>) :
                                  id \in ItemIds,
                                  categoryId \in CategoryIds \ {<<" ">>}},
                               MaxItems)}

NotParsed == [parsed |-> FALSE, success |-> FALSE, data |-> NoConfig,
              issues |-> <<>>]

InitSchema ==
  /\ schemaInput \in SchemaInputs
  /\ schemaResult = NotParsed
  /\ LaunchUnused /\ ArgsUnused /\ ConfigUnused /\ WidgetUnused /\ WatcherUnused

\* loadConfigFromPath and saveConfig call launcherConfigSchema.safeParse
SafeParse ==
  /\ ~schemaResult.parsed
  /\ LET result == safeParse(schemaInput)
     IN schemaResult' = [parsed |-> TRUE, success |-> result.success,
                         data |-> result.data, issues |-> result.issues]
  /\ UNCHANGED <<schemaInput, otherThanSchema>>

NextSchema == SafeParse

SpecSchema == InitSchema /\ [][NextSchema]_vars

----------------------------------------------------------------------------
(* The configuration files and loadConfig *)

\* app.getPath("userData")
UserData == <<"/","u">>

\* process.resourcesPath, or the project root
Resources == <<"/","r">>

\* path.join(root, "config", "launcher.config.json"), the names shortened
getConfigPath(root) == root \o <<"/","c","/","l">>

getUserConfigPath == getConfigPath(UserData)

getBundledConfigPath(root) == getConfigPath(root)

\* the bundled configuration read before the user configuration
getConfigReadCandidates_BundledFirst(root) ==
  IF getUserConfigPath = getBundledConfigPath(root)
  THEN <<getUserConfigPath>>
  ELSE <<getBundledConfigPath(root), getUserConfigPath>>

getConfigReadCandidates(root) ==
  IF getUserConfigPath = getBundledConfigPath(root)
  THEN <<getUserConfigPath>>
  ELSE <<getUserConfigPath, getBundledConfigPath(root)>>

\* the icon file of the bundled resources
IconFile == Resources \o <<"/","i">>

ConfigFiles == {getConfigPath(UserData), getConfigPath(Resources)}

\* `${configPath}.bak` and `${configPath}.tmp` of saveConfig
BackupPath == getUserConfigPath \o <<".","b","a","k">>

TempPath == getUserConfigPath \o <<".","t","m","p">>

DiskPaths == ConfigFiles \cup {IconFile, BackupPath, TempPath}

\* a file: absent, one that cannot be read, a text that is not JSON, the JSON
\* text of a value with or without a byte order mark before it, or an image
File(kind, bom, value) == [kind |-> kind, bom |-> bom, value |-> value]

Absent == File("absent", FALSE, NoConfig)

ValidA ==
  Config(2, <<Category(<<"a">>)>>, <<ConfigItem(<<"x">>, <<"a">>, <<"i">>)>>)

ValidB == Config(2, <<Category(<<"b">>)>>, <<>>)

Padded ==
  Config(2, <<Category(<<" ","a">>)>>,
         <<ConfigItem(<<"x"," ">>, <<"a">>, <<>>)>>)

DuplicateCategory == Config(2, <<Category(<<"a">>), Category(<<"a">>)>>, <<>>)

ConfigContents ==
  { Absent,
    File("unreadable", FALSE, NoConfig),
    File("text", FALSE, NoConfig),
    File("json", FALSE, ValidA),
    File("json", TRUE, ValidB),
    File("json", FALSE, Padded),
    File("json", FALSE, DuplicateCategory) }

ContentsOf(p) ==
  IF p = IconFile THEN {Absent, File("image", FALSE, NoConfig)}
  ELSE IF p = BackupPath THEN {Absent, File("json", TRUE, ValidB)}
  ELSE IF p = TempPath THEN {Absent, File("text", FALSE, NoConfig)}
  ELSE ConfigContents

\* fs.existsSync on the configuration and icon files
ExistingOn(files) == {p \in DiskPaths : files[p].kind # "absent"}

\* /^(https?:\/\/|file:\/\/|data:)/i
HasIconScheme(icon) ==
  LET lower == ToLowerCase(icon)
  IN \/ StartsWith(lower, <<"h","t","t","p",":","/","/">>)
     \/ StartsWith(lower, <<"h","t","t","p","s",":","/","/">>)
     \/ StartsWith(lower, <<"f","i","l","e",":","/","/">>)
     \/ StartsWith(lower, <<"d","a","t","a",":">>)

\* path.join for a relative name without dots
toAbsolutePath(root, candidate) ==
  IF isAbsolute("linux", candidate) THEN candidate
  ELSE root \o <<"/">> \o candidate

\* pathToFileURL(absolutePath).toString(), for a plain POSIX path
pathToFileURL(absolutePath) == <<"f","i","l","e",":","/","/">> \o absolutePath

resolveIconPath(icon, root, existing) ==
  IF icon = <<>> THEN <<>>
  ELSE IF HasIconScheme(icon) THEN icon
  ELSE IF toAbsolutePath(root, icon) \notin existing THEN icon
  ELSE pathToFileURL(toAbsolutePath(root, icon))

toRendererConfig(config, root, existing) ==
  [config EXCEPT
     !.items = [k \in 1..Len(config.items) |->
                  [config.items[k] EXCEPT
                     !.icon = resolveIconPath(@, root, existing)]]]

configError(code) == [ok |-> FALSE, code |-> code, data |-> NoConfig]

\* loadConfigFromPath, given the file at the path: read, drop the byte order
\* mark, JSON.parse, safeParse
loadConfigFromPath(file) ==
  IF file.kind \notin {"text", "json"} THEN configError("CONFIG_READ_FAILED")
  ELSE LET rawJson == [file EXCEPT !.bom = FALSE]
       IN IF rawJson.kind # "json" \/ rawJson.bom
          THEN configError("CONFIG_INVALID_JSON")
          ELSE IF ~safeParse(rawJson.value).success
          THEN configError("CONFIG_INVALID_SCHEMA")
          ELSE [ok |-> TRUE, code |-> "", data |-> safeParse(rawJson.value).data]

\* the loop of loadConfig over the candidates from the k-th on
RECURSIVE LoadCandidates(_, _, _, _, _)
LoadCandidates(readCandidates, k, files, foundAnyFile, tried) ==
  IF k > Len(readCandidates)
  THEN [ok |-> FALSE,
        code |-> IF foundAnyFile THEN "CONFIG_INVALID_SCHEMA"
                 ELSE "CONFIG_NOT_FOUND",
        data |-> NoConfig, source |-> NULL, tried |-> tried]
  ELSE LET candidate == readCandidates[k]
           candidateResult == loadConfigFromPath(files[candidate])
       IN IF candidate \notin ExistingOn(files)
          THEN LoadCandidates(readCandidates, k + 1, files, foundAnyFile,
                              Append(tried, candidate))
          ELSE IF candidateResult.ok
          THEN [ok |-> TRUE, code |-> "", data |-> candidateResult.data,
                source |-> candidate, tried |-> Append(tried, candidate)]
          ELSE LoadCandidates(readCandidates, k + 1, files, TRUE,
                              Append(tried, candidate))

\* path.resolve(__dirname, "..", "..")
getProjectRoot == Resources

getWritableConfigPath == getUserConfigPath

\* fileURLToPath(icon), for a plain POSIX path
fileURLToPath(icon) == SubSeq(icon, 8, Len(icon))

\* normalizeIconForStorage: a file URL under one of the roots is stored as
\* the path relative to it, another file URL as its path, the rest as it is
normalizeIconForStorage(icon, rootCandidates) ==
  IF icon = <<>> THEN <<>>
  ELSE IF ~StartsWith(icon, <<"f","i","l","e",":","/","/">>) THEN icon
  ELSE LET absolutePath == fileURLToPath(icon)
           under == {k \in 1..Len(rootCandidates) :
                       StartsWith(absolutePath, rootCandidates[k] \o <<"/">>)}
       IN IF under = {} THEN absolutePath
          ELSE SubSeq(absolutePath, Len(rootCandidates[MinOf(under)]) + 2,
                      Len(absolutePath))

\* the configurations a renderer asks to save
WithFileIcon ==
  Config(2, <<Category(<<"a">>)>>,
         <<ConfigItem(<<"y">>, <<"a">>, pathToFileURL(IconFile))>>)

\* a configuration of the version before the present one
OldVersion == Config(1, <<Category(<<"a">>)>>, <<>>)

SaveInputs ==
  {ValidA, ValidB, Padded, DuplicateCategory, OldVersion, WithFileIcon}

\* the file system calls of saveConfig: mkdirSync, copyFileSync,
\* writeFileSync, unlinkSync, renameSync
SaveSteps == 5

\* the backup made without looking at the file in place
WriteConfig_BacksUpNothing(files, serialized, failAt) ==
  IF failAt \in {1, 3}
  THEN [ok |-> FALSE, files |-> files]
  ELSE [ok |-> TRUE,
        files |-> [files EXCEPT ![getWritableConfigPath] = serialized,
                                ![TempPath] = Absent]]

\* the steps of saveConfig on the files, up to the one that throws; a file
\* that cannot be read cannot be copied, and a write that fails leaves a
\* truncated file
WriteConfig(files, serialized, failAt) ==
  LET configPath == getWritableConfigPath
      exists == files[configPath].kind # "absent"
      backedUp == IF exists THEN [files EXCEPT ![BackupPath] = files[configPath]]
                  ELSE files
      tempWritten == [backedUp EXCEPT ![TempPath] = serialized]
      unlinked == [tempWritten EXCEPT ![configPath] = Absent]
      renamed == [unlinked EXCEPT ![configPath] = serialized,
                                  ![TempPath] = Absent]
  IN IF failAt = 1 THEN [ok |-> FALSE, files |-> files]
     ELSE IF exists /\ (failAt = 2 \/ files[configPath].kind = "unreadable")
     THEN [ok |-> FALSE, files |-> files]
     ELSE IF failAt = 3
     THEN [ok |-> FALSE,
           files |-> [backedUp EXCEPT
                        ![TempPath] = File("text", FALSE, NoConfig)]]
     ELSE IF exists /\ failAt = 4
     THEN [ok |-> FALSE, files |-> tempWritten]
     ELSE IF failAt = 5
     THEN [ok |-> FALSE, files |-> unlinked]
     ELSE [ok |-> TRUE, files |-> renamed]

NotSaved ==
  [called |-> FALSE, ok |-> FALSE, code |-> "", data |-> NoConfig,
   wrote |-> NoConfig, before |-> Absent, input |-> NoConfig]

NotServed == [called |-> FALSE, ok |-> FALSE, code |-> "", data |-> NoConfig]

NotLoaded ==
  [called |-> FALSE, ok |-> FALSE, code |-> "", data |-> NoConfig,
   source |-> NULL, tried |-> <<>>, saw |-> [p \in DiskPaths |-> Absent]]

InitConfig ==
  /\ resourcesRoot \in {Resources, UserData}
  /\ disk \in {files \in [DiskPaths -> ConfigContents \cup ContentsOf(IconFile)] :
                 \A p \in DiskPaths : files[p] \in ContentsOf(p)}
  /\ diskChanges = 0
  /\ cachedConfigRaw = NoConfig
  /\ cachedConfigForRenderer = NoConfig
  /\ loadResult = NotLoaded
  /\ saves = 0
  /\ saveResult = NotSaved
  /\ served = NotServed
  /\ LaunchUnused /\ ArgsUnused /\ SchemaUnused /\ WidgetUnused /\ WatcherUnused

\* the files as loadConfig meets them: it never looks at the .bak and .tmp
Seen(files) == [files EXCEPT ![BackupPath] = Absent, ![TempPath] = Absent]

\* loadConfig() that empties the raw cache when no file could be loaded
LoadConfigOn_FailureClearsRaw(files) ==
  LET found == LoadCandidates(getConfigReadCandidates(resourcesRoot), 1, files,
                              FALSE, <<>>)
      forRenderer == toRendererConfig(found.data, resourcesRoot,
                                      ExistingOn(files))
  IN [returned |-> [called |-> TRUE, ok |-> found.ok, code |-> found.code,
                    data |-> IF found.ok THEN forRenderer ELSE NoConfig,
                    source |-> found.source, tried |-> found.tried,
                    saw |-> Seen(files)],
      raw |-> found.data,
      forRenderer |-> IF found.ok THEN forRenderer
                      ELSE cachedConfigForRenderer]

\* what loadConfig() returns and leaves in the two caches, run on the files
LoadConfigOn(files) ==
  LET found == LoadCandidates(getConfigReadCandidates(resourcesRoot), 1, files,
                              FALSE, <<>>)
      forRenderer == toRendererConfig(found.data, resourcesRoot,
                                      ExistingOn(files))
  IN IF found.ok
     THEN [returned |-> [called |-> TRUE, ok |-> TRUE, code |-> "",
                         data |-> forRenderer, source |-> found.source,
                         tried |-> found.tried, saw |-> Seen(files)],
           raw |-> found.data,
           forRenderer |-> forRenderer]
     ELSE [returned |-> [called |-> TRUE, ok |-> FALSE, code |-> found.code,
                         data |-> NoConfig, source |-> found.source,
                         tried |-> found.tried, saw |-> Seen(files)],
           raw |-> cachedConfigRaw,
           forRenderer |-> cachedConfigForRenderer]

\* loadConfig(): at startup, on a reload request, for getCachedConfig
LoadConfig ==
  /\ \E loaded \in {LoadConfigOn(disk)} :
       /\ loadResult' = loaded.returned
       /\ cachedConfigRaw' = loaded.raw
       /\ cachedConfigForRenderer' = loaded.forRenderer
  /\ UNCHANGED <<resourcesRoot, disk, diskChanges, saves, saveResult,
                 served, otherThanConfig>>

\* the user or another program writes, replaces or removes a file
DiskChange ==
  /\ diskChanges < MaxDiskChanges
  /\ \E p \in DiskPaths : \E file \in ContentsOf(p) \ {disk[p]} :
       disk' = [disk EXCEPT ![p] = file]
  /\ diskChanges' = diskChanges + 1
  /\ UNCHANGED <<resourcesRoot, cachedConfigRaw, cachedConfigForRenderer,
                 loadResult, saves, saveResult, served, otherThanConfig>>

\* what saveConfig returned; wrote is the value it put in the file, before
\* the file that was in place when it was called, input what it was given
Saved(ok, code, data, wrote, input) ==
  [called |-> TRUE, ok |-> ok, code |-> code, data |-> data, wrote |-> wrote,
   before |-> disk[getWritableConfigPath], input |-> input]

\* the input of saveConfig with the icon of each item made fit for storage
normalizedInput(input) ==
  [input EXCEPT
     !.items = [k \in 1..Len(input.items) |->
                  [input.items[k] EXCEPT
                     !.icon = normalizeIconForStorage(
                                @, <<resourcesRoot, getProjectRoot>>)]]]

\* saveConfig that writes the file before it looks at the schema's answer
SaveConfigOn_WritesFirst(input, files, failAt) ==
  LET schemaResultOfSave == safeParse(normalizedInput(input))
      written == WriteConfig(files, File("json", FALSE, normalizedInput(input)),
                             failAt)
  IN IF ~schemaResultOfSave.success
     THEN [code |-> "CONFIG_INVALID_SCHEMA", files |-> written.files,
           wrote |-> NoConfig, loads |-> FALSE]
     ELSE IF ~written.ok
     THEN [code |-> "CONFIG_WRITE_FAILED", files |-> written.files,
           wrote |-> NoConfig, loads |-> FALSE]
     ELSE [code |-> "", files |-> written.files,
           wrote |-> schemaResultOfSave.data, loads |-> TRUE]

\* saveConfig(input) on the files, up to its call of loadConfig: normalize
\* the icons, validate, back the file up, write the new text beside it and
\* put it in place; failAt is the step at which the file system refuses
\* (0: at none)
SaveConfigOn(input, files, failAt) ==
  LET schemaResultOfSave == safeParse(normalizedInput(input))
      written == WriteConfig(files,
                             File("json", FALSE, schemaResultOfSave.data),
                             failAt)
  IN IF ~schemaResultOfSave.success
     THEN [code |-> "CONFIG_INVALID_SCHEMA", files |-> files,
           wrote |-> NoConfig, loads |-> FALSE]
     ELSE IF ~written.ok
     THEN [code |-> "CONFIG_WRITE_FAILED", files |-> written.files,
           wrote |-> NoConfig, loads |-> FALSE]
     ELSE [code |-> "", files |-> written.files,
           wrote |-> schemaResultOfSave.data, loads |-> TRUE]

\* saveConfig(input), with the loadConfig() it returns
SaveConfig ==
  /\ saves < MaxSaves
  /\ \E input \in SaveInputs : \E failAt \in 0..SaveSteps :
       \E done \in {SaveConfigOn(input, disk, failAt)} :
       \E loaded \in {LoadConfigOn(done.files)} :
         /\ disk' = done.files
         /\ IF ~done.loads
            THEN /\ saveResult' = Saved(FALSE, done.code, NoConfig, NoConfig,
                                        input)
                 /\ UNCHANGED <<loadResult, cachedConfigRaw,
                                cachedConfigForRenderer>>
            ELSE /\ saveResult' = Saved(loaded.returned.ok,
                                        loaded.returned.code,
                                        loaded.returned.data, done.wrote,
                                        input)
                 /\ loadResult' = loaded.returned
                 /\ cachedConfigRaw' = loaded.raw
                 /\ cachedConfigForRenderer' = loaded.forRenderer
  /\ saves' = saves + 1
  /\ UNCHANGED <<resourcesRoot, diskChanges, served, otherThanConfig>>

\* getCachedConfig that loads again at every call
GetCachedConfigOn_AlwaysLoads(raw, loaded) ==
  IF ~loaded.returned.ok \/ loaded.raw = NoConfig
  THEN [called |-> TRUE, ok |-> loaded.returned.ok,
        code |-> loaded.returned.code, data |-> loaded.returned.data,
        loads |-> TRUE]
  ELSE [called |-> TRUE, ok |-> TRUE, code |-> "", data |-> loaded.raw,
        loads |-> TRUE]

\* getCachedConfig(), given the raw cache and what loadConfig() would do:
\* the raw cache when there is one, else the loaded configuration
GetCachedConfigOn(raw, loaded) ==
  IF raw # NoConfig
  THEN [called |-> TRUE, ok |-> TRUE, code |-> "", data |-> raw,
        loads |-> FALSE]
  ELSE IF ~loaded.returned.ok \/ loaded.raw = NoConfig
  THEN [called |-> TRUE, ok |-> loaded.returned.ok,
        code |-> loaded.returned.code, data |-> loaded.returned.data,
        loads |-> TRUE]
  ELSE [called |-> TRUE, ok |-> TRUE, code |-> "", data |-> loaded.raw,
        loads |-> TRUE]

\* getCachedConfig() at the start of a launch request
GetCachedConfig ==
  /\ \E loaded \in {LoadConfigOn(disk)} :
     \E got \in {GetCachedConfigOn(cachedConfigRaw, loaded)} :
       /\ served' = [called |-> TRUE, ok |-> got.ok, code |-> got.code,
                     data |-> got.data]
       /\ IF got.loads
          THEN /\ loadResult' = loaded.returned
               /\ cachedConfigRaw' = loaded.raw
               /\ cachedConfigForRenderer' = loaded.forRenderer
          ELSE UNCHANGED <<loadResult, cachedConfigRaw,
                           cachedConfigForRenderer>>
  /\ UNCHANGED <<resourcesRoot, disk, diskChanges, saves, saveResult,
                 otherThanConfig>>

NextConfig ==
  \/ LoadConfig
  \/ DiskChange

SpecConfig == InitConfig /\ [][NextConfig]_vars

\* the files when the renderer saves: the bundled configuration is the one
\* shipped, or missing
InitSave ==
  /\ InitConfig
  /\ disk[getConfigPath(Resources)] \in
        {Absent, File("json", TRUE, ValidB)}

\* saves, loads and launch requests, on files no other program writes
\* meanwhile
NextSave ==
  \/ SaveConfig
  \/ LoadConfig
  \/ GetCachedConfig

SpecSave == InitSave /\ [][NextSave]_vars

----------------------------------------------------------------------------
(* The widget window *)

\* display.workArea of the one display
WorkArea == [x |-> 0, y |-> 0, width |-> 200, height |-> 100]

\* a field the configuration leaves out
Omitted == "omitted"

\* edgeVisiblePx left out: the schema admits 2 to 60
NoPx == 0

\* app.mode and app.widget of a configuration the schema accepts
WidgetConfigs ==
  [mode : {"fullscreen", "widget"},
   anchor : {"top-left", "bottom-right"},
   hideOnBlur : BOOLEAN,
   hideTrigger : {Omitted, "blur", "outside-click"},
   blurBehavior : {Omitted, "none", "hide", "dock-right-edge",
                   "windows-docking"},
   edgeVisiblePx : {NoPx, 2, 60}]

\* getWidgetBounds, for a widget 80 wide and 50 high without offsets
getWidgetBounds(config) ==
  [width |-> 80, height |-> 50,
   x |-> IF config.anchor = "top-left" THEN WorkArea.x
         ELSE WorkArea.x + WorkArea.width - 80,
   y |-> IF config.anchor = "top-left" THEN WorkArea.y
         ELSE WorkArea.y + WorkArea.height - 50]

Max(a, b) == IF a >= b THEN a ELSE b

Min(a, b) == IF a <= b THEN a ELSE b

\* the window's left edge put widgetEdgeVisiblePx before the right edge of
\* the work area
getWidgetDockBounds(bounds, edgeVisiblePx) ==
  LET workAreaTop == WorkArea.y
      workAreaBottom == WorkArea.y + WorkArea.height
      maxTop == Max(workAreaTop, workAreaBottom - bounds.height)
  IN [x |-> WorkArea.x + WorkArea.width - edgeVisiblePx,
      y |-> Max(workAreaTop, Min(bounds.y, maxTop)),
      width |-> bounds.width,
      height |-> bounds.height]

dockWidgetWindow(w) ==
  IF ~w.widgetModeEnabled \/ ~w.widgetDockOnTrigger \/ w.widgetDocked
  THEN w
  ELSE IF ~w.visible THEN w
  ELSE [w EXCEPT !.widgetHomeBounds = w.bounds,
                 !.bounds = getWidgetDockBounds(w.bounds,
                                                w.widgetEdgeVisiblePx),
                 !.widgetDocked = TRUE,
                 !.cursorWatch = TRUE]

applyWidgetHideAction(w, trigger) ==
  IF ~w.widgetModeEnabled \/ ~w.visible THEN w
  ELSE IF w.widgetHideOnTrigger
  THEN [w EXCEPT !.visible = FALSE, !.focused = FALSE]
  ELSE IF w.widgetDockOnTrigger THEN dockWidgetWindow(w)
  ELSE w

\* gotFocus: whether the OS lets the window take the focus
restoreDockedWidget(w, shouldFocus, gotFocus) ==
  IF ~w.widgetDocked THEN w
  ELSE LET restored == [w EXCEPT !.bounds = w.widgetHomeBounds,
                                 !.widgetDocked = FALSE,
                                 !.cursorWatch = FALSE]
       IN IF shouldFocus
          THEN [restored EXCEPT !.visible = TRUE, !.focused = gotFocus]
          ELSE restored

\* createMainWindow and the ready-to-show handler
InitWidget ==
  /\ widgetConfig \in WidgetConfigs
  /\ LET isWidgetMode == widgetConfig.mode = "widget"
         blurBehavior ==
           IF widgetConfig.blurBehavior # Omitted
           THEN widgetConfig.blurBehavior
           ELSE IF widgetConfig.hideOnBlur THEN "hide" ELSE "none"
         hideTrigger == IF widgetConfig.hideTrigger # Omitted
                        THEN widgetConfig.hideTrigger ELSE "outside-click"
         dockOnBlurBehavior ==
           blurBehavior \in {"dock-right-edge", "windows-docking"}
         edge == IF widgetConfig.edgeVisiblePx # NoPx
                 THEN widgetConfig.edgeVisiblePx ELSE 30
     IN widget =
          [widgetModeEnabled |-> isWidgetMode,
           widgetDocked |-> FALSE,
           widgetHomeBounds |-> getWidgetBounds(widgetConfig),
           widgetEdgeVisiblePx |->
              IF isWidgetMode THEN Max(2, Min(60, edge)) ELSE 30,
           widgetHideOnTrigger |-> isWidgetMode /\ blurBehavior = "hide",
           widgetDockOnTrigger |-> isWidgetMode /\ dockOnBlurBehavior,
           widgetHideTrigger |->
              IF isWidgetMode THEN hideTrigger ELSE "outside-click",
           bounds |-> getWidgetBounds(widgetConfig),
           visible |-> TRUE,
           focused |-> TRUE,
           focusWatch |-> isWidgetMode /\ hideTrigger = "blur"
                            /\ dockOnBlurBehavior,
           outsideClickWatcher |->
              /\ isWidgetMode
              /\ hideTrigger = "outside-click"
              /\ (blurBehavior = "hide" \/ dockOnBlurBehavior),
           cursorWatch |-> FALSE,
           lastEvent |-> "ready-to-show"]
  /\ LaunchUnused /\ ArgsUnused /\ SchemaUnused /\ ConfigUnused /\ WatcherUnused

\* the window loses the focus: mainWindow.on("blur")
Blur ==
  /\ widget.focused
  /\ LET w == [widget EXCEPT !.focused = FALSE, !.lastEvent = "blur"]
     IN widget' = IF ~w.widgetModeEnabled THEN w
                  ELSE IF w.widgetHideTrigger # "blur" THEN w
                  ELSE applyWidgetHideAction(w, "blur")
  /\ UNCHANGED <<widgetConfig, otherThanWidget>>

\* the window is given the focus: mainWindow.on("focus")
Focus ==
  /\ ~widget.focused
  /\ widget.visible
  /\ LET w == [widget EXCEPT !.focused = TRUE, !.lastEvent = "focus"]
     IN widget' = IF ~w.widgetModeEnabled \/ ~w.widgetDocked THEN w
                  ELSE restoreDockedWidget(w, FALSE, TRUE)
  /\ UNCHANGED <<widgetConfig, otherThanWidget>>

\* the watcher reports a mouse button pressed outside the window
OutsideClick ==
  /\ widget.outsideClickWatcher
  /\ LET w == [widget EXCEPT !.lastEvent = "outside-click"]
     IN widget' = IF w.widgetDocked THEN w
                  ELSE applyWidgetHideAction(w, "outside-click")
  /\ UNCHANGED <<widgetConfig, otherThanWidget>>

\* a tick of the interval of startWidgetFocusWatch
FocusWatchTick ==
  /\ widget.focusWatch
  /\ \E cursorInsideWindow \in BOOLEAN :
       LET w == [widget EXCEPT !.lastEvent = "focus-watch"]
       IN widget' =
            IF ~w.widgetModeEnabled THEN w
            ELSE IF ~w.widgetDockOnTrigger \/ w.widgetDocked
                    \/ w.widgetHideTrigger # "blur" THEN w
            ELSE IF ~w.visible THEN w
            ELSE IF ~w.focused /\ ~cursorInsideWindow
            THEN dockWidgetWindow(w)
            ELSE w
  /\ UNCHANGED <<widgetConfig, otherThanWidget>>

\* a tick of the interval of startWidgetCursorWatch
CursorWatchTick ==
  /\ widget.cursorWatch
  /\ \E onVisibleStrip \in BOOLEAN : \E gotFocus \in BOOLEAN :
       LET w == [widget EXCEPT !.lastEvent = "cursor-watch"]
       IN widget' = IF ~w.widgetDocked THEN w
                    ELSE IF onVisibleStrip
                    THEN restoreDockedWidget(w, TRUE, gotFocus)
                    ELSE w
  /\ UNCHANGED <<widgetConfig, otherThanWidget>>

\* toggleWidgetWindow, called by the global shortcut
ToggleShortcut ==
  /\ widget.widgetModeEnabled
  /\ \E gotFocus \in BOOLEAN :
       LET w == [widget EXCEPT !.lastEvent = "toggle"]
       IN widget' =
            IF w.widgetDocked THEN restoreDockedWidget(w, TRUE, gotFocus)
            ELSE IF w.visible /\ w.focused
            THEN [w EXCEPT !.visible = FALSE, !.focused = FALSE]
            ELSE [w EXCEPT !.visible = TRUE, !.focused = gotFocus]
  /\ UNCHANGED <<widgetConfig, otherThanWidget>>

NextWidget ==
  \/ Blur
  \/ Focus
  \/ OutsideClick
  \/ FocusWatchTick
  \/ CursorWatchTick
  \/ ToggleShortcut

SpecWidget == InitWidget /\ [][NextWidget]_vars

----------------------------------------------------------------------------
(* The outside-click watcher *)

\* workers one watcher spawns
MaxWorkers == 2

\* lines of the output whose delivery in chunks is followed
MaxLines == 2

Workers == 1..MaxWorkers

\* child === null
NoChild == 0

Left == <<"l","e","f","t">>

Right == <<"r","i","g","h","t">>

Middle == <<"m","i","d","d","l","e">>

Ready == <<"r","e","a","d","y">>

\* the keys of VK_BY_BUTTON
VK_BY_BUTTON == {Left, Right, Middle}

\* [Console]::WriteLine ends a line with "\r\n"
LF == <<"\n">>

CRLF == <<"\r","\n">>

\* a worker of the watcher: not spawned yet, running or exited; stopped once
\* stop() has killed it; script is the text it has yet to write to its
\* standard output, wrote all it has written, pipe the end of that which no
\* "data" event has delivered yet
Worker(state, script) ==
  [state |-> state, stopped |-> FALSE, script |-> script, wrote |-> <<>>,
   pipe |-> <<>>]

Unborn == Worker("unborn", <<>>)

\* stdoutBuffer.split(/\r?\n/) from the k-th character on; cur is the piece
\* in progress
RECURSIVE Split(_, _, _)
Split(s, k, cur) ==
  IF k > Len(s) THEN <<cur>>
  ELSE IF s[k] = "\n" THEN <<cur>> \o Split(s, k + 1, <<>>)
  ELSE IF s[k] = "\r" /\ k < Len(s) /\ s[k + 1] = "\n"
  THEN <<cur>> \o Split(s, k + 2, <<>>)
  ELSE Split(s, k + 1, Append(cur, s[k]))

parseButton(raw) == IF raw \in {Left, Right, Middle} THEN raw ELSE NULL

\* the body of the loop of onStdoutData for one line: the callbacks it makes,
\* tagged with the worker whose output it is
LineCallbacks(line, inside, from) ==
  LET trimmed == Trim(line)
      button == parseButton(trimmed)
      event(kind) == [kind |-> kind, button |-> button, inside |-> inside,
                      worker |-> from.worker, afterStop |-> from.afterStop]
  IN IF trimmed = <<>> THEN <<>>
     ELSE IF trimmed = Ready THEN <<>>
     ELSE IF button = NULL THEN <<>>
     ELSE IF button \notin VK_BY_BUTTON THEN <<>>
     ELSE <<event("onMouseDownEdge")>>
            \o (IF ~inside THEN <<event("onOutsideClick")>> ELSE <<>>)

RECURSIVE LinesCallbacks(_, _, _, _)
LinesCallbacks(lines, k, inside, from) ==
  IF k > Len(lines) THEN <<>>
  ELSE LineCallbacks(lines[k], inside, from)
         \o LinesCallbacks(lines, k + 1, inside, from)

\* onStdoutData that keeps nothing of a line that has not ended
onStdoutData_DropsOpenLine(buffer, chunk, inside, from) ==
  LET pieces == Split(chunk, 1, <<>>)
  IN [stdoutBuffer |-> <<>>,
      calls |-> LinesCallbacks(SubSeq(pieces, 1, Len(pieces) - 1), 1, inside,
                               from)]

\* onStdoutData(chunk): the buffer it leaves and the callbacks it makes
onStdoutData(buffer, chunk, inside, from) ==
  LET pieces == Split(buffer \o chunk, 1, <<>>)
  IN [stdoutBuffer |-> pieces[Len(pieces)],
      calls |-> LinesCallbacks(SubSeq(pieces, 1, Len(pieces) - 1), 1, inside,
                               from)]

\* what a worker writes while it runs: the notice that it is ready, a button
WorkerScripts == {Ready \o LF, Left \o LF}

\* the watcher as createWindowsOutsideClickWatcher returns it on win32
InitWatcher ==
  /\ child = NoChild
  /\ stdoutBuffer = <<>>
  /\ worker = [w \in Workers |-> Unborn]
  /\ callbacks = <<>>
  /\ cursorInside \in BOOLEAN
  /\ LaunchUnused /\ ArgsUnused /\ SchemaUnused /\ ConfigUnused /\ WidgetUnused

\* start(): nothing when a worker is held, else spawn one and hold it; with
\* stdio "pipe" the worker has its two streams
Start ==
  /\ child = NoChild
  /\ \E w \in Workers :
       /\ worker[w].state = "unborn"
       /\ \A v \in Workers : v < w => worker[v].state # "unborn"
       /\ child' = w
       /\ \E script \in WorkerScripts :
            worker' = [worker EXCEPT ![w] = Worker("running", script)]
  /\ UNCHANGED <<stdoutBuffer, callbacks, cursorInside, otherThanWatcher>>

\* stop(): nothing when no worker is held, else let go of the worker, kill it
\* and empty the buffer
Stop ==
  /\ child # NoChild
  /\ child' = NoChild
  /\ worker' = [worker EXCEPT ![child].stopped = TRUE]
  /\ stdoutBuffer' = <<>>
  /\ UNCHANGED <<callbacks, cursorInside, otherThanWatcher>>

\* the "exit" event of a worker, killed or ended by itself
Exit(w) ==
  /\ worker[w].state = "running"
  /\ worker' = [worker EXCEPT ![w].state = "exited"]
  /\ child' = NoChild
  /\ stdoutBuffer' = <<>>
  /\ UNCHANGED <<callbacks, cursorInside, otherThanWatcher>>

\* a worker writes the next piece of its text to its standard output
WorkerWrites(w) ==
  /\ worker[w].state = "running"
  /\ ~worker[w].stopped
  /\ worker[w].script # <<>>
  /\ \E n \in 1..Len(worker[w].script) :
       worker' = [worker EXCEPT
                    ![w].script = SubSeq(@, n + 1, Len(@)),
                    ![w].wrote = @ \o SubSeq(worker[w].script, 1, n),
                    ![w].pipe = @ \o SubSeq(worker[w].script, 1, n)]
  /\ UNCHANGED <<child, stdoutBuffer, callbacks, cursorInside,
                 otherThanWatcher>>

\* a "data" event of the standard output of a worker: the read returns what
\* is in the pipe
StdoutData(w) ==
  /\ worker[w].pipe # <<>>
  /\ \E got \in {onStdoutData(stdoutBuffer, worker[w].pipe, cursorInside,
                              [worker |-> w,
                               afterStop |-> worker[w].stopped])} :
       /\ stdoutBuffer' = got.stdoutBuffer
       /\ callbacks' = callbacks \o got.calls
  /\ worker' = [worker EXCEPT ![w].pipe = <<>>]
  /\ UNCHANGED <<child, cursorInside, otherThanWatcher>>

\* the user moves the cursor into or out of the window
MoveCursor ==
  /\ cursorInside' = ~cursorInside
  /\ UNCHANGED <<child, stdoutBuffer, worker, callbacks, otherThanWatcher>>

NextWatcher ==
  \/ Start
  \/ Stop
  \/ \E w \in Workers : Exit(w)
  \/ \E w \in Workers : WorkerWrites(w)
  \/ \E w \in Workers : StdoutData(w)
  \/ MoveCursor

SpecWatcher == InitWatcher /\ [][NextWatcher]_vars

\* the lines of a worker's output: the three buttons, the notice, a blank
\* line, a button with blanks around it, a word that is no button
OutputLines ==
  { Left \o CRLF, Right \o LF, Middle \o LF, Ready \o CRLF, CRLF,
    <<" ">> \o Left \o <<" ">> \o LF, <<"l","e">> \o LF }

\* the texts of at most n lines
RECURSIVE LinesUpTo(_)
LinesUpTo(n) ==
  IF n = 0 THEN {<<>>}
  ELSE LinesUpTo(n - 1)
         \cup {text \o line : text \in LinesUpTo(n - 1), line \in OutputLines}

\* what a worker has yet to write: lines, and perhaps the start of one more
Outputs ==
  {text \o open : text \in LinesUpTo(MaxLines) \ {<<>>},
                  open \in {<<>>, <<"l","e">>}}

\* a watcher whose worker is about to write its output
InitStdout ==
  /\ child = 1
  /\ stdoutBuffer = <<>>
  /\ \E output \in Outputs :
       worker = [w \in Workers |->
                   IF w = 1 THEN Worker("running", output) ELSE Unborn]
  /\ callbacks = <<>>
  /\ cursorInside \in BOOLEAN
  /\ LaunchUnused /\ ArgsUnused /\ SchemaUnused /\ ConfigUnused /\ WidgetUnused

\* the worker writes, its output arrives in chunks, the cursor moves
NextStdout ==
  \/ \E w \in Workers : WorkerWrites(w)
  \/ \E w \in Workers : StdoutData(w)
  \/ MoveCursor

SpecStdout == InitStdout /\ [][NextStdout]_vars

----------------------------------------------------------------------------
(* Properties of launchItem *)

Done(i) == inv[i].pc = "done"

Returned(i) == inv[i].pc = "done" /\ inv[i].outcome = "returned"

NoProcessCall(i) == inv[i].spawns = <<>> /\ inv[i].openPaths = <<>>

\* s, trimmed, starts with http:// or https:// in any mix of cases
HasHttpScheme(s) ==
  LET t == Trim(s)
      Is(k, lo, up) == t[k] = lo \/ t[k] = up
      Http == /\ Len(t) >= 4
              /\ Is(1, "h", "H") /\ Is(2, "t", "T")
              /\ Is(3, "t", "T") /\ Is(4, "p", "P")
      Rest(k) == Len(t) >= k + 2 /\ t[k] = ":" /\ t[k + 1] = "/" /\ t[k + 2] = "/"
  IN Http /\ (Rest(5) \/ (Len(t) >= 5 /\ Is(5, "s", "S") /\ Rest(6)))

\* C1: an item whose trimmed target has the scheme http:// or https://, in any
\* case, causes no filesystem check, no command search, no spawn and no
\* shell.openPath; shell.openExternal is called exactly once, with the trimmed
\* target; the result is success when that call succeeds and
\* TARGET_LAUNCH_FAILED when it fails.
C1_UrlOnlyOpensUrl ==
  \A i \in Launches :
    (inv[i].pc # "idle" /\ HasHttpScheme(inv[i].item.target)) =>
      /\ inv[i].fsChecks = 0
      /\ inv[i].whereCalls = 0
      /\ NoProcessCall(i)
      /\ inv[i].openExternals = <<Trim(inv[i].item.target)>>
      /\ Done(i) =>
           /\ inv[i].outcome = "returned"
           /\ inv[i].urlReply = "opened" => inv[i].result = Success("Opened URL")
           /\ inv[i].urlReply = "failed" =>
                /\ ~inv[i].result.ok
                /\ inv[i].result.code = "TARGET_LAUNCH_FAILED"
           /\ inv[i].urlReply \in {"opened", "failed"}

\* a URL written in upper case and padded with blanks was opened, and the
\* opener failed
C1_Witness ==
  \E i \in Launches :
    /\ Done(i)
    /\ HasHttpScheme(inv[i].item.target)
    /\ inv[i].item.target # Trim(inv[i].item.target)
    /\ inv[i].urlReply = "failed"

\* C2: when the absolute path to launch (the target itself, or the path the
\* command search gave) does not exist at the existence check, the result is
\* TARGET_NOT_FOUND and no spawn, shell.openPath or shell.openExternal is made.
C2_MissingTargetNotFound ==
  \A i \in Launches :
    (inv[i].absoluteTarget # NULL /\ inv[i].sawExists = "absent") =>
      /\ Returned(i)
      /\ ~inv[i].result.ok
      /\ inv[i].result.code = "TARGET_NOT_FOUND"
      /\ inv[i].result.details = inv[i].absoluteTarget
      /\ NoProcessCall(i)
      /\ inv[i].openExternals = <<>>

\* a bare command was resolved to a path that was gone by the existence check
C2_Witness ==
  \E i \in Launches :
    /\ Done(i)
    /\ inv[i].resolvedCommandPath # NULL
    /\ inv[i].absoluteTarget = inv[i].resolvedCommandPath
    /\ inv[i].sawExists = "absent"

\* C3: when the absolute path is an existing directory, with or without
\* arguments, shell.openPath is called exactly once with that path and spawn
\* never; the result is success exactly when shell.openPath resolved with the
\* empty string, and otherwise TARGET_LAUNCH_FAILED with that string as details.
C3_DirectoryOpenedOnce ==
  \A i \in Launches :
    inv[i].sawKind = "dir" =>
      /\ inv[i].openPaths = <<inv[i].absoluteTarget>>
      /\ inv[i].spawns = <<>>
      /\ inv[i].pc \in {"openPath", "done"}
      /\ Done(i) =>
           /\ inv[i].outcome = "returned"
           /\ inv[i].result.ok <=> inv[i].openReply = <<>>
           /\ ~inv[i].result.ok =>
                /\ inv[i].result.code = "TARGET_LAUNCH_FAILED"
                /\ inv[i].result.details = inv[i].openReply

\* a directory given with arguments was opened and shell.openPath reported an
\* error
C3_Witness ==
  \E i \in Launches :
    /\ Done(i)
    /\ inv[i].sawKind = "dir"
    /\ Len(inv[i].args) > 0
    /\ inv[i].openReply # <<>>

\* s is non-empty and has no path separator
NoSeparators(s) == Len(s) > 0 /\ \A k \in 1..Len(s) : s[k] \notin {"/", "\\"}

\* the last four characters of p, in lower case, are a native-executable
\* extension
HasExecutableSuffix(p) ==
  /\ Len(p) >= 4
  /\ ToLowerCase(SubSeq(p, Len(p) - 3, Len(p))) \in EXECUTABLE_EXTENSIONS

\* the invocation ended on the check of the item's own working directory
WorkingDirRejected(i) ==
  /\ Returned(i)
  /\ Trim(inv[i].item.workingDir) # <<>>
  /\ inv[i].result =
       launchError("TARGET_NOT_FOUND", "Working directory not found",
                   Trim(inv[i].item.workingDir))
  /\ NoProcessCall(i)

\* the item is a regular file to be opened by the shell: no arguments and an
\* extension that is not a native-executable one in any case
DocumentCase(i) ==
  Len(inv[i].args) = 0 /\ ~HasExecutableSuffix(inv[i].absoluteTarget)

\* C4 as stated: a target that resolves to an existing regular file goes to
\* shell.openPath without a spawn exactly when it has no arguments and a
\* non-executable extension, and in every other case it is spawned.
C4_AsStated ==
  \A i \in Launches :
    (Done(i) /\ inv[i].sawKind = "file") =>
      /\ (inv[i].openPaths # <<>> /\ inv[i].spawns = <<>>) <=> DocumentCase(i)
      /\ ~DocumentCase(i) => inv[i].spawns # <<>>

\* C4, amended: as stated, except that in the other cases the file is spawned
\* unless the item names a working directory that does not exist; then the
\* result is TARGET_NOT_FOUND for that directory and nothing is spawned or
\* opened.
C4_DocumentOrSpawn ==
  \A i \in Launches :
    (Done(i) /\ inv[i].sawKind = "file") =>
      /\ (inv[i].openPaths # <<>> /\ inv[i].spawns = <<>>) <=> DocumentCase(i)
      /\ DocumentCase(i) => inv[i].openPaths = <<inv[i].absoluteTarget>>
      /\ ~DocumentCase(i) =>
           /\ inv[i].spawns # <<>> <=> ~WorkingDirRejected(i)
           /\ inv[i].spawns # <<>> =>
                inv[i].spawns[1].executable = inv[i].absoluteTarget

\* a file without arguments whose executable extension is written in upper case
\* was spawned
C4_Witness ==
  \E i \in Launches :
    /\ Done(i)
    /\ inv[i].sawKind = "file"
    /\ Len(inv[i].args) = 0
    /\ HasExecutableSuffix(inv[i].absoluteTarget)
    /\ extname(platform, inv[i].absoluteTarget) \notin EXECUTABLE_EXTENSIONS
    /\ inv[i].spawns # <<>>

\* the item is an existing regular file with an executable extension and no
\* arguments
ExecutableNoArgsCase(i) ==
  /\ inv[i].sawKind = "file"
  /\ Len(inv[i].args) = 0
  /\ HasExecutableSuffix(inv[i].absoluteTarget)

\* after a spawn that succeeded and a verifier that gave up after the full
\* number of polls, shell.openPath was called once on the same path and its
\* outcome is the result
FallbackDecides(i) ==
  (inv[i].spawnErrnos = <<"OK">> /\ inv[i].verified = "false") =>
    /\ inv[i].polls = 6
    /\ inv[i].openPaths = <<inv[i].absoluteTarget>>
    /\ Len(inv[i].spawns) = 1
    /\ inv[i].pc \in {"openPath", "done"}
    /\ Done(i) =>
         inv[i].result =
           IF inv[i].openReply = <<>> THEN Success("Opened")
           ELSE launchError("TARGET_LAUNCH_FAILED", "Failed to open path",
                            inv[i].openReply)

\* C5 as stated: an existing regular file with an executable extension and no
\* arguments is spawned; if the spawn succeeds and the verifier reports the
\* image not running, shell.openPath is called once on the same path and its
\* outcome is the result.
C5_AsStated ==
  \A i \in Launches :
    ExecutableNoArgsCase(i) =>
      /\ Done(i) =>
           /\ inv[i].spawns # <<>>
           /\ inv[i].spawns[1].executable = inv[i].absoluteTarget
      /\ FallbackDecides(i)

\* C5, amended: as stated, except that the file is not spawned when the item
\* names a working directory that does not exist (the result is then
\* TARGET_NOT_FOUND for that directory).
C5_SpawnThenFallback ==
  \A i \in Launches :
    ExecutableNoArgsCase(i) =>
      /\ Done(i) =>
           /\ inv[i].spawns # <<>> <=> ~WorkingDirRejected(i)
           /\ inv[i].spawns # <<>> =>
                inv[i].spawns[1].executable = inv[i].absoluteTarget
      /\ FallbackDecides(i)

\* an executable was spawned, the verifier gave up, and the shell-open that
\* followed failed
C5_Witness ==
  \E i \in Launches :
    /\ Done(i)
    /\ ExecutableNoArgsCase(i)
    /\ inv[i].spawnErrnos = <<"OK">>
    /\ inv[i].verified = "false"
    /\ ~inv[i].result.ok

\* the item's target is a bare command the command search did not resolve
UnresolvedBareCase(i) ==
  /\ NoSeparators(Trim(inv[i].item.target))
  /\ ~HasHttpScheme(inv[i].item.target)
  /\ inv[i].resolvedCommandPath = NULL

\* the first spawn is of the target as written, with the tokenized arguments
SpawnedLiterally(i) ==
  /\ inv[i].spawns # <<>>
  /\ inv[i].spawns[1].executable = Trim(inv[i].item.target)
  /\ inv[i].spawns[1].args = normalizeArgs(inv[i].item.args)
  /\ ~inv[i].spawns[1].shell

\* C6 as stated: an unresolved bare command is never a classification failure;
\* launch goes on to spawn the target string literally with the tokenized
\* arguments.
C6_AsStated ==
  \A i \in Launches :
    (Done(i) /\ UnresolvedBareCase(i)) =>
      /\ inv[i].outcome = "returned"
      /\ inv[i].sawExists = "unasked"
      /\ SpawnedLiterally(i)

\* C6, amended: as stated, except that nothing is spawned when the item names a
\* working directory that does not exist (the result is then TARGET_NOT_FOUND
\* for that directory, not for the target).
C6_UnresolvedBareSpawned ==
  \A i \in Launches :
    (Done(i) /\ UnresolvedBareCase(i)) =>
      /\ inv[i].outcome = "returned"
      /\ inv[i].sawExists = "unasked"
      /\ inv[i].absoluteTarget = NULL
      /\ SpawnedLiterally(i) <=> ~WorkingDirRejected(i)

\* where.exe found nothing for a bare command with arguments, and the command
\* was spawned as written
C6_Witness ==
  \E i \in Launches :
    /\ Done(i)
    /\ UnresolvedBareCase(i)
    /\ inv[i].whereCalls = 1
    /\ Len(inv[i].args) > 0
    /\ SpawnedLiterally(i)

\* the first spawn attempt failed with ENOENT
FirstSpawnNotFound(i) ==
  Len(inv[i].spawnErrnos) >= 1 /\ inv[i].spawnErrnos[1] = "ENOENT"

\* a second attempt was made: the same call, through the command interpreter
RetriedThroughShell(i) ==
  /\ Len(inv[i].spawns) = 2
  /\ ~inv[i].spawns[1].shell
  /\ inv[i].spawns[2] = [inv[i].spawns[1] EXCEPT !.shell = TRUE]

\* C7: when the first spawn of a bare command (a spawned string without path
\* separators) fails with ENOENT, exactly one more attempt is made, through
\* the command interpreter, and if that fails too the result is
\* TARGET_LAUNCH_FAILED; an item whose target is an absolute path never gets
\* a second attempt; no invocation makes more than two attempts.
C7_RetryOnceForBareCommand ==
  \A i \in Launches :
    /\ Len(inv[i].spawns) <= 2
    /\ (FirstSpawnNotFound(i) /\ NoSeparators(inv[i].spawns[1].executable)) =>
         /\ RetriedThroughShell(i)
         /\ (Done(i) /\ inv[i].spawnErrnos[2] # "OK") =>
              /\ inv[i].outcome = "returned"
              /\ ~inv[i].result.ok
              /\ inv[i].result.code = "TARGET_LAUNCH_FAILED"
         /\ (Done(i) /\ inv[i].spawnErrnos[2] = "OK") => inv[i].result.ok
    /\ isAbsolute(platform, Trim(inv[i].item.target)) =>
         Len(inv[i].spawns) <= 1

\* a bare command failed with ENOENT, was retried through the command
\* interpreter, and failed again for lack of permission
C7_Witness ==
  \E i \in Launches :
    /\ Done(i)
    /\ inv[i].spawnErrnos = <<"ENOENT", "EACCES">>
    /\ RetriedThroughShell(i)

\* C8 as stated: whenever the first spawn fails with ENOENT and the item's
\* target as written is a bare command, also one that the command search
\* resolved to an absolute path, there is one retry through the command
\* interpreter.
C8_AsStated ==
  \A i \in Launches :
    (FirstSpawnNotFound(i) /\ NoSeparators(Trim(inv[i].item.target))) =>
      RetriedThroughShell(i)

\* C8, amended: the retry is keyed on the string handed to spawn. When the
\* first spawn fails with ENOENT and the item's target as written is a bare
\* command, there is one retry through the command interpreter exactly when
\* the command search had not resolved the command (the target as written was
\* spawned); when the resolved absolute path was spawned there is no retry and
\* the result is TARGET_LAUNCH_FAILED.
C8_RetryKeyedOnSpawnedString ==
  \A i \in Launches :
    (FirstSpawnNotFound(i) /\ NoSeparators(Trim(inv[i].item.target))) =>
      /\ RetriedThroughShell(i) <=> inv[i].absoluteTarget = NULL
      /\ inv[i].absoluteTarget = NULL =>
           inv[i].spawns[1].executable = Trim(inv[i].item.target)
      /\ inv[i].absoluteTarget # NULL =>
           /\ inv[i].spawns = <<[inv[i].spawns[1] EXCEPT
                                   !.executable = inv[i].absoluteTarget]>>
           /\ Returned(i)
           /\ ~inv[i].result.ok
           /\ inv[i].result.code = "TARGET_LAUNCH_FAILED"

\* a bare command was resolved, the resolved path was spawned with arguments,
\* and the spawn failed with ENOENT
C8_Witness ==
  \E i \in Launches :
    /\ Done(i)
    /\ NoSeparators(Trim(inv[i].item.target))
    /\ inv[i].absoluteTarget # NULL
    /\ Len(inv[i].args) > 0
    /\ FirstSpawnNotFound(i)

\* the verifier's answer had the processes started by other invocations not
\* been in the process list
VerdictAlone(i) ==
  IF inv[i].verified = "true" /\ inv[i].polls > 0 /\ inv[i].pollsShowing > 0
  THEN IF inv[i].verifiedBy \ (Launches \ {i}) # {} THEN "true" ELSE "false"
  ELSE inv[i].verified

\* C9: of two overlapping invocations for two different items, each gets the
\* verification verdict, and with it the result, that it would get alone with
\* the same filesystem and the same OS replies: no verdict rests on a process
\* the other invocation started.
C9_OutcomeAsIfAlone ==
  \A i \in requests : \A j \in requests \ {i} :
    (Done(i) /\ inv[i].item.id # inv[j].item.id) =>
      inv[i].verified = VerdictAlone(i)

\* C10: launchItem never ends by throwing: every invocation that ends returns
\* a result.
C10_NeverThrows ==
  \A i \in Launches : Done(i) => inv[i].outcome = "returned"

----------------------------------------------------------------------------
(* Error codes *)

Failed(i) == Returned(i) /\ ~inv[i].result.ok

\* the error codes launchItem itself returns, of the five of LaunchErrorCode
LaunchItemCodes ==
  {"TARGET_NOT_FOUND", "TARGET_PERMISSION_DENIED", "TARGET_LAUNCH_FAILED"}

\* C11: every failure launchItem returns (the handler has found the item and
\* called it) has one of the codes
\* TARGET_NOT_FOUND, TARGET_PERMISSION_DENIED and TARGET_LAUNCH_FAILED, for
\* every item and every sequence of OS replies.
C11_OnlyThreeCodes ==
  \A i \in Launches :
    (Failed(i) /\ inv[i].item # NoItem) =>
       inv[i].result.code \in LaunchItemCodes

\* each of the three codes is returned: here a spawn refused with EPERM
C11_Witness ==
  \E i \in Launches :
    /\ Failed(i)
    /\ inv[i].item # NoItem
    /\ inv[i].spawnErrnos = <<"EPERM">>
    /\ inv[i].result.code = "TARGET_PERMISSION_DENIED"

\* the spawn sequence of the invocation ended with a spawn that failed
SpawnSequenceFailed(i) ==
  /\ Returned(i)
  /\ inv[i].spawnErrnos # <<>>
  /\ inv[i].spawnErrnos[Len(inv[i].spawnErrnos)] # "OK"

LastErrno(i) == inv[i].spawnErrnos[Len(inv[i].spawnErrnos)]

PermissionClass == {"EACCES", "EPERM"}

\* C12 as stated: when the spawn sequence ends in failure the code is
\* TARGET_PERMISSION_DENIED if the errno of the failing attempt, first spawn
\* or retry, is EACCES or EPERM, and TARGET_LAUNCH_FAILED otherwise.
C12_AsStated ==
  \A i \in Launches :
    SpawnSequenceFailed(i) =>
      /\ ~inv[i].result.ok
      /\ inv[i].result.code = IF LastErrno(i) \in PermissionClass
                              THEN "TARGET_PERMISSION_DENIED"
                              ELSE "TARGET_LAUNCH_FAILED"

\* C12, amended: only the first spawn attempt is classified. When it fails
\* and is not retried, the code is TARGET_PERMISSION_DENIED for EACCES and
\* EPERM and TARGET_LAUNCH_FAILED for every other errno; when the retry
\* through the command interpreter fails, the code is TARGET_LAUNCH_FAILED
\* whatever the errno, EACCES and EPERM included.
C12_FirstAttemptClassified ==
  \A i \in Launches :
    SpawnSequenceFailed(i) =>
      /\ ~inv[i].result.ok
      /\ inv[i].result.details = <<LastErrno(i)>>
      /\ inv[i].result.code =
           IF Len(inv[i].spawnErrnos) = 1 /\ LastErrno(i) \in PermissionClass
           THEN "TARGET_PERMISSION_DENIED"
           ELSE "TARGET_LAUNCH_FAILED"

\* the retry through the command interpreter was refused with EPERM
C12_Witness ==
  \E i \in Launches :
    /\ SpawnSequenceFailed(i)
    /\ inv[i].spawnErrnos = <<"ENOENT", "EPERM">>
    /\ inv[i].spawns[2].shell

\* shell.openPath was called and resolved with a message of refused access
OpenPathRefused(i) ==
  /\ Returned(i)
  /\ inv[i].openPaths # <<>>
  /\ inv[i].openReply = <<"Access is denied">>

\* C13 as stated: when shell.openPath is refused for access control, for a
\* directory, a document or the fallback after verification, the code is
\* TARGET_PERMISSION_DENIED.
C13_AsStated ==
  \A i \in Launches :
    OpenPathRefused(i) =>
      ~inv[i].result.ok /\ inv[i].result.code = "TARGET_PERMISSION_DENIED"

\* C13, amended: shell.openPath reports a refusal as a message like any other
\* failure, and launchItem returns TARGET_LAUNCH_FAILED with that message as
\* details, for a directory, a document and the fallback after verification;
\* TARGET_PERMISSION_DENIED is returned only for a first spawn attempt that is
\* refused.
C13_OpenRefusalIsLaunchFailed ==
  \A i \in Launches :
    /\ OpenPathRefused(i) =>
         /\ ~inv[i].result.ok
         /\ inv[i].result.code = "TARGET_LAUNCH_FAILED"
         /\ inv[i].result.details = inv[i].openReply
    /\ (Failed(i) /\ inv[i].result.code = "TARGET_PERMISSION_DENIED") =>
         /\ inv[i].openPaths = <<>>
         /\ Len(inv[i].spawnErrnos) = 1
         /\ LastErrno(i) \in PermissionClass

\* the fallback after a verification that failed was refused access
C13_Witness ==
  \E i \in Launches :
    /\ OpenPathRefused(i)
    /\ inv[i].verified = "false"
    /\ inv[i].spawns # <<>>

----------------------------------------------------------------------------
(* The working directory *)

\* the item names a working directory and the check of it was reached
WorkingDirChecked(i) ==
  /\ Done(i)
  /\ Trim(inv[i].item.workingDir) # <<>>
  /\ inv[i].sawWorkingDir # "unasked"

WorkingDirFailure(i) ==
  /\ Returned(i)
  /\ ~inv[i].result.ok
  /\ inv[i].result.code = "TARGET_NOT_FOUND"
  /\ inv[i].result.details = Trim(inv[i].item.workingDir)
  /\ inv[i].spawns = <<>>

\* C16 as stated: when the working directory the item names is missing, or
\* exists but is not a directory, at the time it is checked, the result is
\* TARGET_NOT_FOUND for the working directory and no spawn call is made.
C16_AsStated ==
  \A i \in Launches :
    (WorkingDirChecked(i) /\ inv[i].sawWorkingDir # "dir") =>
      WorkingDirFailure(i)

\* C16, amended: only the existence of the working directory is checked. When
\* the path the item names does not exist at the time it is checked, the
\* result is TARGET_NOT_FOUND for the working directory and no spawn call is
\* made; when the path exists, be it a directory or a regular file, the check
\* passes and the spawn is attempted with that path as its cwd.
C16_OnlyExistenceChecked ==
  \A i \in Launches :
    WorkingDirChecked(i) =>
      IF inv[i].sawWorkingDir = "none"
      THEN WorkingDirFailure(i)
      ELSE /\ inv[i].spawns # <<>>
           /\ \A k \in 1..Len(inv[i].spawns) :
                inv[i].spawns[k].cwd = Trim(inv[i].item.workingDir)

\* a bare command was spawned with a regular file as its working directory
C16_Witness ==
  \E i \in Launches :
    /\ WorkingDirChecked(i)
    /\ inv[i].sawWorkingDir = "file"
    /\ inv[i].absoluteTarget = NULL
    /\ Len(inv[i].spawns) = 2

----------------------------------------------------------------------------
(* Termination *)

\* the invocation sits in a synchronous call of an OS utility
InUtilityCall(i) == inv[i].pc \in {"whereWait", "tasklistWait"}

\* C17: every invocation of launchItem hands exactly one result to its
\* caller: it never hands over a second one, and whenever it has been started
\* and has no step left to take, the OS having answered every spawn and open
\* call, it has returned its result.
C17_ExactlyOneOutcome ==
  \A i \in requests :
    /\ inv[i].outcomes <= 1
    /\ (inv[i].pc # "idle" /\ ~InUtilityCall(i) /\ ~ENABLED LaunchStep(i)) =>
         inv[i].outcomes = 1

\* C18: the wait of launchItem on where.exe and on each tasklist query is
\* bounded: whenever an invocation sits in the call of one of them and the
\* utility does not exit, a step of the invocation still ends the wait.
C18_UtilityWaitsBounded ==
  \A i \in requests : InUtilityCall(i) => ENABLED LaunchStep(i)

----------------------------------------------------------------------------
(* The argument tokenizer *)

Quotes(str) == {k \in 1..Len(str) : str[k] = "\""}

\* normalizeArgs was handed a string
TokenizedString == argsResult.returned /\ argsInput.kind = "str"

\* tokens separated by whitespace alone: a quote opens or closes a quoted run
\* inside the token, and the token ends at whitespace outside quotes
RECURSIVE WhitespaceTokens(_, _, _, _, _)
WhitespaceTokens(str, k, cur, inToken, inQuotes) ==
  IF k > Len(str) THEN IF inToken THEN <<cur>> ELSE <<>>
  ELSE IF str[k] = "\""
  THEN WhitespaceTokens(str, k + 1, cur, TRUE, ~inQuotes)
  ELSE IF str[k] \in WS /\ ~inQuotes
  THEN (IF inToken THEN <<cur>> ELSE <<>>)
         \o WhitespaceTokens(str, k + 1, <<>>, FALSE, FALSE)
  ELSE WhitespaceTokens(str, k + 1, Append(cur, str[k]), TRUE, inQuotes)

\* C14 as stated: for every string in which every quote is closed, the tokens
\* are the pieces between runs of whitespace outside quotes, in input order,
\* with the quotes stripped; an empty or whitespace-only string has no token.
C14_AsStated ==
  (TokenizedString /\ Cardinality(Quotes(argsInput.v)) % 2 = 0) =>
    argsResult.tokens = WhitespaceTokens(argsInput.v, 1, <<>>, FALSE, FALSE)

\* the token of a quoted run: its quotes are stripped unless it has a line
\* break in it
QuotedToken(run) ==
  IF \E k \in 1..Len(run) : run[k] \in LineTerminators
  THEN <<"\"">> \o run \o <<"\"">>
  ELSE run

\* tokens separated by whitespace and by the two ends of a quoted run; a quote
\* that no later quote closes is dropped
RECURSIVE BoundaryTokens(_, _, _, _)
BoundaryTokens(str, k, cur, mode) ==
  IF k > Len(str) THEN IF mode = "run" THEN <<cur>> ELSE <<>>
  ELSE IF mode = "quoted"
  THEN IF str[k] = "\""
       THEN <<QuotedToken(cur)>> \o BoundaryTokens(str, k + 1, <<>>, "gap")
       ELSE BoundaryTokens(str, k + 1, Append(cur, str[k]), "quoted")
  ELSE IF str[k] = "\""
  THEN (IF mode = "run" THEN <<cur>> ELSE <<>>)
         \o BoundaryTokens(str, k + 1, <<>>,
                           IF \E j \in Quotes(str) : j > k
                           THEN "quoted" ELSE "gap")
  ELSE IF str[k] \in WS
  THEN (IF mode = "run" THEN <<cur>> ELSE <<>>)
         \o BoundaryTokens(str, k + 1, <<>>, "gap")
  ELSE BoundaryTokens(str, k + 1, Append(cur, str[k]), "run")

\* C14, amended: the tokens are, in input order, every maximal run of
\* characters that are neither whitespace nor a double quote, and every
\* double-quoted run, which may hold whitespace and may be empty, with its
\* quotes stripped unless it holds a line break. Tokens are separated by runs
\* of whitespace and also by the two ends of a quoted run, so a quoted run next
\* to other text is a token of its own. There is no escape processing, and an
\* empty or whitespace-only string has no token.
C14_TokensSplitAtQuotesToo ==
  TokenizedString =>
    /\ argsResult.tokens = BoundaryTokens(argsInput.v, 1, <<>>, "gap")
    /\ Trim(argsInput.v) = <<>> => argsResult.tokens = <<>>

\* text and a quoted run holding a blank, with no whitespace between them
C14_Witness ==
  /\ TokenizedString
  /\ argsInput.v = <<"a", "\"", " ", "a", "\"">>
  /\ argsResult.tokens = << <<"a">>, <<" ", "a">> >>

\* the string ends inside a quoted run: its last quote has no closing quote
Unterminated(str) == Cardinality(Quotes(str)) % 2 = 1

BeforeOpenQuote(str) == SubSeq(str, 1, MaxOf(Quotes(str)) - 1)

AfterOpenQuote(str) == SubSeq(str, MaxOf(Quotes(str)) + 1, Len(str))

EndsWith(str, tail) ==
  Len(str) >= Len(tail) /\ SubSeq(str, Len(str) - Len(tail) + 1, Len(str)) = tail

\* C15 as stated: for a string with an unterminated quote, normalizeArgs
\* returns, and the whole rest of the trimmed string after the opening quote,
\* whitespace included, belongs to the last token.
C15_AsStated ==
  (TokenizedString /\ Unterminated(argsInput.v)) =>
    LET rest == AfterOpenQuote(Trim(argsInput.v))
        tokens == argsResult.tokens
    IN rest # <<>> =>
         tokens # <<>> /\ EndsWith(tokens[Len(tokens)], rest)

\* C15, amended: for a string with an unterminated quote, normalizeArgs
\* returns, the opening quote is dropped, and the text before it and the rest
\* after it are tokenized as they are without it: whitespace in the rest
\* separates tokens, and no token holds whitespace of the rest or the quote.
C15_OpenQuoteDropped ==
  (TokenizedString /\ Unterminated(argsInput.v)) =>
    LET before == [kind |-> "str", v |-> BeforeOpenQuote(argsInput.v)]
        rest == [kind |-> "str", v |-> AfterOpenQuote(argsInput.v)]
    IN /\ argsResult.tokens = normalizeArgs(before) \o normalizeArgs(rest)
       /\ \A k \in 1..Len(normalizeArgs(rest)) :
            \A j \in 1..Len(normalizeArgs(rest)[k]) :
              normalizeArgs(rest)[k][j] \notin WS \cup {"\""}

\* an unterminated quote followed by two words
C15_Witness ==
  /\ TokenizedString
  /\ argsInput.v = <<"\"", "a", " ", "a">>
  /\ argsResult.tokens = << <<"a">>, <<"a">> >>

----------------------------------------------------------------------------
(* The configuration schema *)

CategoryIdsOf(config) ==
  [k \in 1..Len(config.categories) |-> config.categories[k].id]

ItemIdsOf(config) == [k \in 1..Len(config.items) |-> config.items[k].id]

Distinct(seq) ==
  \A j, k \in 1..Len(seq) : j # k => seq[j] # seq[k]

\* the three rules: no two categories with one id, no two items with one id,
\* every item in a category of the configuration
ThreeRules(config) ==
  /\ Distinct(CategoryIdsOf(config))
  /\ Distinct(ItemIdsOf(config))
  /\ \A k \in 1..Len(config.items) :
       \E j \in 1..Len(config.categories) :
         config.items[k].categoryId = config.categories[j].id

\* C19 as stated: a configuration the schema accepts satisfies the three
\* rules, and a configuration that breaks one of them is rejected.
C19_AsStated ==
  schemaResult.parsed =>
    /\ schemaResult.success => ThreeRules(schemaInput)
    /\ ~ThreeRules(schemaInput) => ~schemaResult.success

\* the configuration with every id and categoryId trimmed
IdsTrimmed(config) ==
  [config EXCEPT
     !.categories = [k \in 1..Len(config.categories) |->
                       [config.categories[k] EXCEPT !.id = Trim(@)]],
     !.items = [k \in 1..Len(config.items) |->
                  [config.items[k] EXCEPT !.id = Trim(@),
                                          !.categoryId = Trim(@)]]]

\* C19, amended: the schema trims the ids before it compares them. The
\* configuration it hands on when it accepts has its ids trimmed and satisfies
\* the three rules, and an input that breaks one of them once its ids are
\* trimmed is rejected; ids that differ only in the whitespace around them
\* count as one id.
C19_RulesOnTrimmedIds ==
  schemaResult.parsed =>
    /\ schemaResult.success =>
         /\ schemaResult.data = IdsTrimmed(schemaInput)
         /\ ThreeRules(schemaResult.data)
    /\ ~ThreeRules(IdsTrimmed(schemaInput)) => ~schemaResult.success

\* an accepted configuration whose item names its category with a blank before
\* the id
C19_Witness ==
  /\ schemaResult.parsed
  /\ schemaResult.success
  /\ schemaInput.categories = <<Category(<<"a">>)>>
  /\ Len(schemaInput.items) = 1
  /\ schemaInput.items[1].categoryId = <<" ", "a">>
  /\ schemaResult.data.items[1].categoryId = <<"a">>

----------------------------------------------------------------------------
(* Loading the configuration *)

\* the file can be read, is JSON and passes the schema
ValidFile(file) == file.kind = "json" /\ safeParse(file.value).success

\* C20: loadConfig looks at the user configuration first and at the bundled
\* one second and returns the first that exists and validates: the user
\* configuration whenever it is valid, the bundled one only when the user
\* configuration is absent or invalid, and an error when neither is valid.
C20_UserConfigFirst ==
  loadResult.called =>
    LET saw == loadResult.saw
        user == getUserConfigPath
        bundled == getBundledConfigPath(resourcesRoot)
    IN /\ ValidFile(saw[user]) =>
            /\ loadResult.ok
            /\ loadResult.source = user
            /\ loadResult.tried = <<user>>
       /\ (~ValidFile(saw[user]) /\ ValidFile(saw[bundled])) =>
            /\ loadResult.ok
            /\ loadResult.source = bundled
            /\ loadResult.tried = <<user, bundled>>
       /\ (~ValidFile(saw[user]) /\ ~ValidFile(saw[bundled])) =>
            ~loadResult.ok
       /\ loadResult.ok =>
            loadResult.data =
              toRendererConfig(safeParse(saw[loadResult.source].value).data,
                               resourcesRoot, ExistingOn(saw))

\* the user configuration exists and fails the schema, the bundled one is
\* returned; its icon is resolved to a file URL
C20_Witness ==
  /\ loadResult.called
  /\ loadResult.ok
  /\ loadResult.saw[getUserConfigPath] = File("json", FALSE, DuplicateCategory)
  /\ loadResult.source = getConfigPath(Resources)
  /\ loadResult.source # getUserConfigPath
  /\ Len(loadResult.data.items) = 1
  /\ StartsWith(loadResult.data.items[1].icon, <<"f","i","l","e",":">>)


----------------------------------------------------------------------------
(* The launch-request handler *)

\* the invocation called none of shell.openExternal, shell.openPath, spawn
NoLaunchCalls(i) ==
  /\ inv[i].openExternals = <<>>
  /\ inv[i].openPaths = <<>>
  /\ inv[i].spawns = <<>>
  /\ inv[i].started = 0

\* the items of the cached configuration that have the id asked for
WithIdAsked(i) == {it \in catalog.items : it.id = inv[i].itemId}

\* C22: the handler forwards to launchItem exactly the item of the cached
\* configuration that has the id received; when no item has the id it returns
\* ITEM_NOT_FOUND and when no configuration is available CONFIG_NOT_READY,
\* both without any URL-open, shell-open or spawn.
C22_HandlerLooksItemUp ==
  \A i \in Launches :
    inv[i].pc # "idle" =>
      IF ~catalog.ok
      THEN /\ Failed(i)
           /\ inv[i].result.code = "CONFIG_NOT_READY"
           /\ inv[i].item = NoItem
           /\ NoLaunchCalls(i)
      ELSE IF WithIdAsked(i) = {}
      THEN /\ Failed(i)
           /\ inv[i].result.code = "ITEM_NOT_FOUND"
           /\ inv[i].item = NoItem
           /\ NoLaunchCalls(i)
      ELSE /\ inv[i].item \in WithIdAsked(i)
           /\ inv[i].result.code \notin {"CONFIG_NOT_READY", "ITEM_NOT_FOUND"}

\* an id no item has was asked for of a loaded configuration
C22_Witness ==
  \E i \in Launches :
    /\ catalog.ok
    /\ inv[i].itemId = MissingId
    /\ Failed(i)
    /\ inv[i].result.code = "ITEM_NOT_FOUND"
----------------------------------------------------------------------------
(* One pass *)

\* the phases of an invocation, in the order of the code of launchItem
PhaseRank(pc) ==
  CASE pc = "idle" -> 0
    [] pc \in {"resolve", "whereWait", "exists", "stat", "workingDir"} -> 1
    [] pc \in {"spawn", "spawnShell"} -> 2
    [] pc \in {"verify", "tasklistWait"} -> 3
    [] pc \in {"openPath", "urlOpen"} -> 4
    [] pc = "done" -> 5

\* the calls the invocation has made so far stay within the bounds
CallsBounded(i) ==
  /\ Len(inv[i].spawns) <= 2
  /\ Len(inv[i].spawns) = 2 =>
        /\ ~inv[i].spawns[1].shell
        /\ inv[i].spawns[2].shell
        /\ Len(inv[i].spawnErrnos) >= 1
        /\ inv[i].spawnErrnos[1] = "ENOENT"
  /\ Len(inv[i].openPaths) <= 1
  /\ Len(inv[i].openExternals) <= 1

\* a step of the invocation never goes back to a phase it has left, and
\* makes a spawn attempt only on entering the attempt
StepsForward(i) ==
  /\ PhaseRank(inv'[i].pc) >= PhaseRank(inv[i].pc)
  /\ (inv[i].pc = "spawnShell") => inv'[i].pc # "spawn"
  /\ Len(inv'[i].spawns) > Len(inv[i].spawns) =>
        inv'[i].pc # inv[i].pc /\ inv'[i].pc \in {"spawn", "spawnShell"}

\* C24: an invocation makes at most two spawn attempts, the second only as
\* the retry through the shell of a first that reported ENOENT, at most one
\* shell.openPath call and at most one shell.openExternal call, and never
\* enters the classifying, spawning or verifying phase a second time.
C24_SingleLinearPass ==
  /\ [](\A i \in Launches : CallsBounded(i))
  /\ [][\A i \in Launches : StepsForward(i)]_vars

\* an invocation that made the two spawn attempts and returned, and one that
\* polled to the bound, fell back to shell.openPath and returned
C24_Witness ==
  \E i \in Launches :
    /\ Returned(i)
    /\ \/ inv[i].spawnErrnos = <<"ENOENT", "OK">> /\ Len(inv[i].spawns) = 2
       \/ /\ Len(inv[i].spawns) = 1
          /\ inv[i].polls = VerifyAttempts
          /\ Len(inv[i].openPaths) = 1
----------------------------------------------------------------------------
(* The launch verifier *)

\* verifyProcessLaunch was called in the invocation and has answered
VerifierAnswered(i) == inv[i].verified \in {"true", "false"}

\* C25: the verifier polls the process list at most 6 times; it answers true
\* at the first poll whose output shows the image name and polls no further;
\* it answers false exactly when each of the 6 polls failed to show the
\* image; where there is no process list (not win32) it answers true
\* without any poll.
C25_VerifierAnswersByImage ==
  \A i \in Launches :
    /\ inv[i].polls <= 6
    /\ inv[i].pollsShowing <= 1
    /\ (inv[i].pollsShowing = 1 /\ inv[i].pc \notin {"verify", "tasklistWait"})
          => inv[i].verified = "true"
    /\ VerifierAnswered(i) =>
          IF platform # "win32"
          THEN inv[i].verified = "true" /\ inv[i].polls = 0
          ELSE /\ inv[i].verified = "true" => inv[i].pollsShowing = 1
               /\ inv[i].verified = "false" <=>
                     (inv[i].polls = 6 /\ inv[i].pollsShowing = 0)

\* what holds of the verifier whatever tasklist prints: the bound, the stop
\* at the first poll answered true, and the answer without a poll off win32
VerifierBounded ==
  \A i \in Launches :
    /\ inv[i].polls <= 6
    /\ inv[i].pollsShowing <= 1
    /\ VerifierAnswered(i) =>
          IF platform # "win32"
          THEN inv[i].verified = "true" /\ inv[i].polls = 0
          ELSE /\ inv[i].verified = "false" =>
                     (inv[i].polls = 6 /\ inv[i].pollsShowing = 0)
               /\ inv[i].pollsShowing = 1 => inv[i].verified = "true"

\* the last spawn attempt of the invocation emitted "spawn"
SpawnAcked(i) ==
  /\ inv[i].spawnErrnos # <<>>
  /\ inv[i].spawnErrnos[Len(inv[i].spawnErrnos)] = "OK"

\* the verifier was called, or shell.openPath was called after a spawn
VerifierOrFallbackUsed(i) ==
  \/ inv[i].polls > 0
  \/ inv[i].verified # "unasked"
  \/ inv[i].spawns # <<>> /\ inv[i].openPaths # <<>>

\* C26: the verifier and the shell.openPath fallback are used only for a
\* no-argument executable at an absolute path; a spawn that succeeded of a
\* target with arguments, or of a bare command that was not resolved,
\* returns Success "Launched" with no poll and no shell.openPath call.
C26_VerifierOnlyForBareExecutable ==
  \A i \in Launches :
    /\ VerifierOrFallbackUsed(i) =>
          /\ inv[i].absoluteTarget # NULL
          /\ ExecutableNoArgsCase(i)
    /\ (Returned(i) /\ SpawnAcked(i)
           /\ (Len(inv[i].args) > 0 \/ inv[i].absoluteTarget = NULL)) =>
          /\ inv[i].result = Success("Launched")
          /\ inv[i].polls = 0
          /\ inv[i].verified = "unasked"
          /\ inv[i].openPaths = <<>>

\* on win32 an existing executable spawned with arguments, and the spawn
\* succeeded
C26_Witness ==
  \E i \in Launches :
    /\ platform = "win32"
    /\ Returned(i)
    /\ SpawnAcked(i)
    /\ Len(inv[i].args) > 0
    /\ inv[i].absoluteTarget # NULL
    /\ HasExecutableSuffix(inv[i].absoluteTarget)
    /\ inv[i].result = Success("Launched")
----------------------------------------------------------------------------
(* The command resolver *)

\* where.exe was run for the invocation and replied
WhereReplied(i) ==
  inv[i].whereCalls > 0 /\ inv[i].pc \notin {"resolve", "whereWait"}

\* line k of the reply of where.exe, trimmed
CandidateLine(i, k) == Trim(inv[i].whereReply.stdout[k])

\* line k of the reply passed the existence check
Remains(i, k) == CandidateLine(i, k) \in inv[i].whereExisting

\* line k names a path through a WindowsApps directory
ThroughWindowsApps(i, k) ==
  \E a \in 1..Len(CandidateLine(i, k)) :
    /\ a + Len(WindowsAppsDir) - 1 <= Len(CandidateLine(i, k))
    /\ ToLowerCase(SubSeq(CandidateLine(i, k), a,
                          a + Len(WindowsAppsDir) - 1)) = WindowsAppsDir

\* C27: of the lines of where.exe, in their order, the resolver drops those
\* that fail the existence check and returns the first of the rest that does
\* not pass through a WindowsApps directory; if all of the rest pass through
\* it, the first of the rest; if nothing is left or where.exe failed, null.
C27_ResolverPrefersNonAlias ==
  \A i \in Launches :
    WhereReplied(i) =>
      LET ks == IF inv[i].whereReply.status = 0
                THEN {k \in 1..Len(inv[i].whereReply.stdout) : Remains(i, k)}
                ELSE {}
          plain == {k \in ks : ~ThroughWindowsApps(i, k)}
      IN IF ks = {} THEN inv[i].resolvedCommandPath = NULL
         ELSE IF plain # {}
         THEN \E k \in plain :
                /\ \A j \in plain : k <= j
                /\ inv[i].resolvedCommandPath = CandidateLine(i, k)
         ELSE \E k \in ks :
                /\ \A j \in ks : k <= j
                /\ inv[i].resolvedCommandPath = CandidateLine(i, k)

\* where.exe listed a missing path, the alias, and two plain paths: the
\* first plain one was resolved
C27_Witness ==
  \E i \in Launches :
    /\ WhereReplied(i)
    /\ inv[i].whereReply.stdout = <<Gone, Alias, ExeC, ExeA>>
    /\ inv[i].whereExisting = {Alias, ExeC, ExeA}
    /\ inv[i].resolvedCommandPath = ExeC
----------------------------------------------------------------------------
(* The working directory of a spawn *)

\* dir is the directory that contains path p: p is dir, a separator unless
\* dir ends with one, and one more name
Contains(dir, p) ==
  /\ Len(dir) > 0
  /\ Len(p) > Len(dir)
  /\ SubSeq(p, 1, Len(dir)) = dir
  /\ LET rest == SubSeq(p, Len(dir) + 1, Len(p))
         name == IF IsSep(platform, rest[1]) THEN Tail(rest) ELSE rest
     IN /\ IsSep(platform, rest[1]) \/ IsSep(platform, dir[Len(dir)])
        /\ Len(name) > 0
        /\ \A k \in 1..Len(name) : ~IsSep(platform, name[k])

\* the item of the invocation names a working directory of its own
HasOwnWorkingDir(i) ==
  \E k \in 1..Len(inv[i].item.workingDir) :
    inv[i].item.workingDir[k] \notin WS

\* C28: every spawn attempt of an invocation is given the item's own working
\* directory when the item names one, else the directory that contains the
\* absolute target when there is one, else the current directory of the
\* launcher; the retry is given the directory of the first attempt.
C28_SpawnWorkingDir ==
  \A i \in Launches :
    \A k \in 1..Len(inv[i].spawns) :
      /\ inv[i].spawns[k].cwd = inv[i].spawns[1].cwd
      /\ IF HasOwnWorkingDir(i)
         THEN inv[i].spawns[k].cwd = Trim(inv[i].item.workingDir)
         ELSE IF inv[i].absoluteTarget # NULL
         THEN Contains(inv[i].spawns[k].cwd, inv[i].absoluteTarget)
         ELSE inv[i].spawns[k].cwd = Cwd

\* a bare command that was not resolved, of an item without a working
\* directory, retried through the shell: both attempts in the launcher's
\* current directory
C28_Witness ==
  \E i \in Launches :
    /\ Len(inv[i].spawns) = 2
    /\ ~HasOwnWorkingDir(i)
    /\ inv[i].absoluteTarget = NULL
    /\ inv[i].spawns[2].cwd = Cwd

----------------------------------------------------------------------------
(* What the verifier's answer rests on *)

\* C29: an invocation that returns Success has started its target at most
\* once: the target is never started by the spawn and then a second time by
\* the shell.openPath fallback.
C29_StartedAtMostOnce ==
  \A i \in Launches :
    (Returned(i) /\ inv[i].result.ok) => inv[i].started <= 1

\* C30: when the verifier answers true on a poll that lists the image, the
\* process this invocation spawned is among the processes listed: a process
\* of the same image name that ran before, or that another invocation
\* started, does not make it answer true for a spawn the OS dropped.
C30_VerifiedByOwnProcess ==
  \A i \in Launches :
    (inv[i].verified = "true" /\ inv[i].pollsShowing > 0) =>
       i \in inv[i].verifiedBy
----------------------------------------------------------------------------
(* saveConfig *)

\* what a step of saveConfig does to the files
SaveKeepsBackup ==
  LET configPath == getUserConfigPath
  IN /\ \A p \in DiskPaths \ {configPath, BackupPath, TempPath} :
          disk'[p] = disk[p]
     /\ saveResult'.ok =>
          /\ disk'[configPath] = File("json", FALSE, saveResult'.wrote)
          /\ disk[configPath] # Absent => disk'[BackupPath] = disk[configPath]
     /\ (disk[configPath] # Absent /\ disk'[configPath] # disk[configPath]) =>
          disk'[BackupPath] = disk[configPath]

\* C21: saveConfig writes to the user configuration path only (and to the
\* .bak and .tmp beside it); when a file is there, its content is copied to
\* the .bak before the file is replaced or removed, so that after a save
\* that succeeded the .bak holds what the file held just before the save.
C21_SaveBacksUp == [][saves' # saves => SaveKeepsBackup]_vars

\* a save that succeeded over a configuration file, which is now in the .bak
C21_Witness ==
  /\ saveResult.called
  /\ saveResult.ok
  /\ saveResult.before.kind = "json"
  /\ disk[BackupPath] = saveResult.before
  /\ disk[getUserConfigPath] = File("json", FALSE, saveResult.wrote)
  /\ disk[getUserConfigPath] # saveResult.before
----------------------------------------------------------------------------
(* Docking *)

\* the configuration asks for docking
DockingConfigured ==
  /\ widgetConfig.mode = "widget"
  /\ widgetConfig.blurBehavior \in {"windows-docking", "dock-right-edge"}

\* the window shows a strip of edgeVisiblePx pixels at the right edge of the
\* work area
DockedAtRightEdge ==
  /\ widget.widgetDocked
  /\ widget.bounds.x + (IF widgetConfig.edgeVisiblePx = NoPx THEN 30
                        ELSE widgetConfig.edgeVisiblePx)
       = WorkArea.x + WorkArea.width

\* C23: in widget mode with blurBehavior "windows-docking" or
\* "dock-right-edge", once the visible window has lost the focus it is docked
\* at the right edge of the work area with a strip of edgeVisiblePx pixels
\* left visible.
C23_DocksOnBlur ==
  (DockingConfigured /\ widget.lastEvent = "blur" /\ widget.visible) =>
     DockedAtRightEdge

\* with hideTrigger "blur" the window that lost the focus is docked
DockedWhenTriggerIsBlur ==
  (DockingConfigured /\ widgetConfig.hideTrigger = "blur"
     /\ widget.lastEvent = "blur" /\ widget.visible) => DockedAtRightEdge
----------------------------------------------------------------------------
(* The file in place during a save *)

\* the file holds a complete configuration that loadConfigFromPath accepts
HoldsValidConfig(file) == loadConfigFromPath(file).ok

\* C31: when the user configuration path holds a valid configuration before
\* saveConfig, then whatever step of the save the file system refuses (or
\* the save is interrupted at), the path holds a valid configuration after
\* it, the old one or the new one, and a loadConfig that follows does not
\* fall back to the bundled configuration.
C31_ConfigInPlaceThroughSave ==
  [][(saves' # saves /\ HoldsValidConfig(disk[getUserConfigPath])) =>
       /\ HoldsValidConfig(disk'[getUserConfigPath])
       /\ disk'[getUserConfigPath] \in
            {disk[getUserConfigPath], File("json", FALSE, saveResult'.wrote)}
       /\ LoadConfigOn(disk').returned.source = getUserConfigPath]_vars

\* as long as the path is not left empty, the file in place is the old or
\* the new configuration
InPlaceUnlessLeftEmpty ==
  [][(saves' # saves /\ HoldsValidConfig(disk[getUserConfigPath])
        /\ disk'[getUserConfigPath] # Absent) =>
       /\ HoldsValidConfig(disk'[getUserConfigPath])
       /\ disk'[getUserConfigPath] \in
            {disk[getUserConfigPath], File("json", FALSE, saveResult'.wrote)}
       /\ LoadConfigOn(disk').returned.source = getUserConfigPath]_vars
----------------------------------------------------------------------------
(* A save that the schema refuses *)

\* the step is a call of saveConfig whose input the schema refuses
SaveRefused ==
  /\ saves' # saves
  /\ ~safeParse(normalizedInput(saveResult'.input)).success

----------------------------------------------------------------------------
(* The two caches *)

\* the raw cache is what the last loadConfig that succeeded read, and the
\* cache for the renderer is there when the raw cache is
CachesOfLastLoad ==
  /\ (cachedConfigRaw = NoConfig) <=> (cachedConfigForRenderer = NoConfig)
  /\ (loadResult.called /\ loadResult.ok) =>
       /\ cachedConfigRaw =
            loadConfigFromPath(loadResult.saw[loadResult.source]).data
       /\ cachedConfigForRenderer =
            toRendererConfig(cachedConfigRaw, resourcesRoot,
                             ExistingOn(loadResult.saw))
       /\ loadResult.data = cachedConfigForRenderer

\* a step changes a cache only by a loadConfig that succeeded, which sets the
\* two of them from the file it loaded; a loadConfig that failed changes
\* neither
CachesMoveTogether ==
  /\ (cachedConfigRaw' # cachedConfigRaw
        \/ cachedConfigForRenderer' # cachedConfigForRenderer) =>
       /\ loadResult'.ok
       /\ loadResult'.saw = Seen(disk')
       /\ cachedConfigRaw' =
            loadConfigFromPath(disk'[loadResult'.source]).data
       /\ cachedConfigForRenderer' =
            toRendererConfig(cachedConfigRaw', resourcesRoot,
                             ExistingOn(disk'))
  /\ (loadResult' # loadResult /\ ~loadResult'.ok) =>
       /\ cachedConfigRaw' = cachedConfigRaw
       /\ cachedConfigForRenderer' = cachedConfigForRenderer

\* a launch request is given the raw cache, and is refused only when no
\* loadConfig has succeeded so far
ServedFromRawCache ==
  served' # served =>
    /\ served'.ok => /\ served'.data = cachedConfigRaw'
                     /\ cachedConfigRaw' # NoConfig
                     /\ cachedConfigRaw # NoConfig =>
                          served'.data = cachedConfigRaw
    /\ ~served'.ok => /\ cachedConfigRaw = NoConfig
                      /\ cachedConfigRaw' = NoConfig
                      /\ ~loadResult'.ok

\* C33: the raw cache and the cache for the renderer are set together, from
\* the one file a loadConfig loaded; a loadConfig that fails leaves both as
\* they were; a launch request is served from the raw cache, that is from the
\* configuration of the last loadConfig that succeeded.
C33_CachesUpdatedTogether ==
  /\ []CachesOfLastLoad
  /\ [][CachesMoveTogether /\ ServedFromRawCache]_vars

\* a launch request served from the cache after a save and a loadConfig that
\* failed
C33_Witness ==
  /\ served.called /\ served.ok
  /\ saveResult.called
  /\ loadResult.called /\ ~loadResult.ok
  /\ served.data = cachedConfigRaw
  /\ cachedConfigForRenderer # NoConfig
----------------------------------------------------------------------------
(* The worker the watcher holds *)

\* isRunning()
isRunning == child # NoChild

\* the workers this watcher spawned that are alive and that stop() has not
\* killed
AliveNotStopped ==
  {w \in Workers : worker[w].state = "running" /\ ~worker[w].stopped}

\* C34: after any sequence of start(), stop() and "exit" events, isRunning()
\* is true exactly when a worker spawned by this watcher is alive and has not
\* been stopped, and at most one such worker is alive.
C34_RunningIffWorkerAlive ==
  /\ isRunning <=> AliveNotStopped # {}
  /\ Cardinality(AliveNotStopped) <= 1

\* when isRunning() is true the worker held is alive and not stopped
HeldWorkerIsAlive == isRunning => child \in AliveNotStopped
----------------------------------------------------------------------------
(* Callbacks after stop() *)

\* C35: once stop() has returned, no onOutsideClick and no onMouseDownEdge
\* is called for output of the worker it stopped, whenever that output
\* arrives.
C35_NoCallbackAfterStop ==
  \A k \in 1..Len(callbacks) : ~callbacks[k].afterStop
----------------------------------------------------------------------------
(* Lines and chunks *)

\* the text of worker 1 that "data" events have delivered so far
Delivered ==
  SubSeq(worker[1].wrote, 1, Len(worker[1].wrote) - Len(worker[1].pipe))

\* the lines of a text that have ended, whatever came in which chunk
CompleteLines(text) ==
  LET pieces == Split(text, 1, <<>>)
  IN SubSeq(pieces, 1, Len(pieces) - 1)

IsButtonLine(line) == Trim(line) \in {Left, Right, Middle}

IsEdge(call) == call.kind = "onMouseDownEdge"

\* each onMouseDownEdge made with the cursor outside is followed at once by
\* the onOutsideClick of the same button, and no other onOutsideClick is made
OutsideClicksFollowEdges ==
  \A k \in 1..Len(callbacks) :
    /\ (IsEdge(callbacks[k]) /\ ~callbacks[k].inside) =>
         /\ k < Len(callbacks)
         /\ callbacks[k + 1].kind = "onOutsideClick"
         /\ callbacks[k + 1].button = callbacks[k].button
    /\ callbacks[k].kind = "onOutsideClick" =>
         /\ k > 1
         /\ IsEdge(callbacks[k - 1])
         /\ ~callbacks[k - 1].inside
         /\ callbacks[k - 1].button = callbacks[k].button

\* C36: the callbacks depend on the complete lines written, not on the
\* chunks they arrive in: onMouseDownEdge is called once for each complete
\* button line, in order, onOutsideClick for those at which the cursor is
\* outside the window, and "ready", blank and unknown lines give no callback.
C36_CallbacksPerCompleteLine ==
  LET edges == SelectSeq(callbacks, IsEdge)
      buttonLines == SelectSeq(CompleteLines(Delivered), IsButtonLine)
  IN /\ [k \in 1..Len(edges) |-> edges[k].button]
          = [k \in 1..Len(buttonLines) |-> Trim(buttonLines[k])]
     /\ OutsideClicksFollowEdges

\* an outside click was reported, and a later line has arrived up to the
\* middle of its line end
C36_Witness ==
  /\ \E k \in 1..Len(callbacks) : callbacks[k].kind = "onOutsideClick"
  /\ stdoutBuffer = Left \o <<"\r">>
  /\ worker[1].script = LF
====
